---- MODULE Spec2Model ----
(***************************************************************************)
(* Model of the document question-answering service (src/Bajaj).          *)
(*                                                                         *)
(* SpecAnswer   : DirectAnswerGenerator.answer_questions_parallel and the  *)
(*                per-question tasks it fans out (timeout / retry /        *)
(*                fallback wrappers of app/error_handling.py included).    *)
(* SpecRegistry : GlobalResources.initialize and its three concurrent      *)
(*                sub-initializations.                                     *)
(* SpecPipeline : one run_submission call (main.py) arriving at any point  *)
(*                of the life of the registry, its four stages abstracted  *)
(*                to their outcomes.                                       *)
(* SpecAccess   : the accessors of GlobalResources, called at any point of *)
(*                the life of the registry.                                *)
(* SpecHealth   : GlobalResources.health_check, likewise.                  *)
(* SpecRetry, SpecTimeout, SpecFallback : retry_handler, timeout_handler   *)
(*                and safe_execute_with_fallback around an operation that  *)
(*                returns, raises or stays pending.                        *)
(* SpecDocument : one process_document_from_url_async call, the response   *)
(*                it receives and the temporary file it writes.            *)
(* SpecMonitor  : PerformanceMonitor.start_request, finish_request,        *)
(*                track_operation and get_performance_stats called by      *)
(*                concurrent callers, and the lock they share.             *)
(* SpecAssembly : the context assembly of _retrieve_relevant_docs.         *)
(* SpecGenerate : one run of the body of generate_answer.                  *)
(* SpecIndex    : two requests writing to and searching the one Pinecone   *)
(*                index.                                                   *)
(*                                                                         *)
(* asyncio is modelled untimed: a deadline (asyncio.wait_for) may expire   *)
(* at any moment at which the operation it wraps is still pending.  An     *)
(* expiry cancels the wrapped operation; the CancelledError it injects is  *)
(* a BaseException and is caught by none of the "except Exception"         *)
(* clauses of the code.                                                    *)
(***************************************************************************)
EXTENDS Integers, Sequences, FiniteSets, TLC

VARIABLES
    \* ---- GlobalResources (app/global_resources.py); TRUE = handle is not None
    pinecone_client, embeddings, llm,
    api_keys,       \* which of the API keys os.getenv finds in the environment
    init,           \* position and outcome of the GlobalResources.initialize call
    sub,            \* one record per sub-initialization gathered by initialize
    \* ---- DirectAnswerGenerator.answer_questions_parallel
    questions,      \* the question list passed to the call
    vector_store,   \* TRUE iff the vector-store handle passed to the call is truthy
    batch,          \* position and outcome of the answer_questions_parallel call
    tasks,          \* one record per per-question task created at line 73
    order,          \* indices of the tasks in the order in which they completed
    gather_exc,     \* the first exception asyncio.gather received from a child
    \* ---- run_submission (main.py) and the PerformanceMonitor it reports to
    request,        \* position and outcome of the one run_submission call
    monitor,        \* PerformanceMonitor: the request's metrics, active or completed
    \* ---- calls on the registry made from outside initialize()
    access,         \* the last accessor call (get_llm, ...) and its outcome
    health,         \* position and result of the one health_check() call
    \* ---- the wrappers of app/error_handling.py around an arbitrary operation
    retry,          \* a call of an operation wrapped in retry_handler
    timed,          \* a call of an operation wrapped in timeout_handler
    guarded,        \* a call of ErrorHandler.safe_execute_with_fallback
    \* ---- the stages of a request, each on its own
    acquire,        \* a process_document_from_url_async call and the temp storage
    traces,         \* PerformanceMonitor: active requests and completed buffer
    assembly,       \* the context assembly of a _retrieve_relevant_docs call
    generation,     \* a generate_answer call: its prompt and what it returns
    index           \* the Pinecone index and the requests that write and read it

handle_vars == <<pinecone_client, embeddings, llm>>
registry_vars == <<handle_vars, api_keys, init, sub>>
answer_vars == <<questions, vector_store, batch, tasks, order, gather_exc>>
pipeline_vars == <<request, monitor>>
probe_vars == <<access, health>>
wrapper_vars == <<retry, timed, guarded>>
unit_vars == <<generation, index>>
stage_vars == <<acquire, traces, assembly, unit_vars>>
rest_vars == <<probe_vars, wrapper_vars, stage_vars>>
vars == <<registry_vars, answer_vars, pipeline_vars, rest_vars>>

----------------------------------------------------------------------------
\* Bounds of the model

\* longest question list explored
MaxQuestions == 2

\* largest max_retries given to retry_handler
MaxRetries == 3

----------------------------------------------------------------------------
\* Strings of the program

\* FallbackMechanisms.fallback_answer_generation
APOLOGY == "I'm sorry, I couldn't generate an answer for this question due to a technical issue. Please try rephrasing your question or try again later."

\* FallbackMechanisms.fallback_vector_search
NO_SEARCH == "I couldn't search the document for relevant information. Please ensure the document was processed correctly and try again."

\* Question texts explored: two proper questions and a whitespace-only one.
QuestionTexts == {"What is covered?", "Who is insured?", "  "}

\* Texts the completion model may return in response.content.
LlmContents == {"The policy covers hospitalisation in full.", "Yes.", "  "}

\* str.strip() on the texts of the model: only the whitespace-only text changes.
Strip(s) == IF s \in {"", " ", "  "} THEN "" ELSE s

\* Error kinds (CustomExceptions, app/error_handling.py)
TimeoutKind == "TimeoutError"
ExternalServiceKind == "ExternalServiceError"
DocumentProcessingKind == "DocumentProcessingError"
VectorStoreKind == "VectorStoreError"
ResourceInitializationKind == "ResourceInitializationError"

\* The three resources of GlobalResources
Resources == {"pinecone", "embeddings", "llm"}

\* retry_handler(max_retries=3, ...) on the three _initialize_*_with_retry
InitMaxRetries == 3

\* retry_handler(max_retries=2, ...) on _answer_single_question and generate_answer
QuestionMaxRetries == 2
GenerateMaxRetries == 2

----------------------------------------------------------------------------
\* Values and outcomes.  A string the program returns is a record
\* [text, about]: text is the string, about names the question the text was
\* generated for ("" for a canned string); about is bookkeeping for the
\* order-preservation properties and is read by no action's guard.

Text(s, q) == [text |-> s, about |-> q]

NoOutcome == [status |-> "none", text |-> "", about |-> "", kind |-> "", name |-> ""]
Ok(v) == [status |-> "ok", text |-> v.text, about |-> v.about, kind |-> "", name |-> ""]
Err(k, n) == [status |-> "err", text |-> "", about |-> "", kind |-> k, name |-> n]
Cancelled == [status |-> "cancelled", text |-> "", about |-> "", kind |-> "CancelledError", name |-> ""]

ValueOf(o) == Text(o.text, o.about)

\* GlobalResources.is_initialized
is_initialized == pinecone_client /\ embeddings /\ llm

\* A sub-initialization before initialize() created it.
NewSubInit == [pc |-> "idle", attempt |-> 0, error |-> NoOutcome]

\* FallbackMechanisms.fallback_answer_generation(question): never fails.
fallback_answer_generation(q) == Ok(Text(APOLOGY, ""))

\* A fallback that raises, where the code's one cannot.
safe_execute_no_fallback(primary, fallback, operation_name) == primary

\* ErrorHandler.safe_execute_with_fallback: the outcome of the wrapper, given
\* the outcome of the primary and the outcome the fallback would have.
safe_execute_with_fallback(primary, fallback, operation_name) ==
    IF primary.status = "ok" THEN primary
    ELSE IF fallback.status = "ok" THEN fallback
    ELSE Err(ExternalServiceKind, operation_name)

PrimaryOk(t) == t.primary.status = "ok"

\* asyncio.gather collecting the children's results in completion order.
gather_in_completion_order(ts, completed) ==
    [k \in 1..Len(ts) |-> ValueOf(ts[completed[k]].outcome)]

\* A collection that leaves out the tasks whose primary failed.
gather_drop_failed(ts, completed) ==
    LET kept == SelectSeq(ts, PrimaryOk)
    IN [k \in 1..Len(kept) |-> ValueOf(kept[k].outcome)]

\* asyncio.gather(*tasks): the result list is positional, results[i] is the
\* result of the i-th awaitable whatever the completion order.
gather_results(ts, completed) ==
    [i \in 1..Len(ts) |-> ValueOf(ts[i].outcome)]

----------------------------------------------------------------------------
\* The per-question task (_answer_single_question_with_fallback).

\* searches and llm_calls count the calls of vector_store.similarity_search
\* (line 191) and of llm.ainvoke (line 278) made for the question.
NewTask == [pc |-> "created", attempt |-> 0, gen_attempt |-> 0,
            searches |-> 0, llm_calls |-> 0,
            context |-> "", primary |-> NoOutcome, outcome |-> NoOutcome]

\* No question counts as blank: the check of lines 130-134 is left out.
never_blank(q) == FALSE

\* not question or not question.strip() (line 130)
IsBlank(q) == Strip(q) = ""

Running(t) == t.pc \in {"search", "llm", "sleep_gen", "sleep_q"}

\* The primary (_answer_single_question under its two decorators) ended
\* with outcome p; safe_execute_with_fallback resolves the task.
Resolve(t, p, q, i) ==
    [t EXCEPT !.pc = "done", !.primary = p,
              !.outcome = safe_execute_with_fallback(p, fallback_answer_generation(q), "question_idx")]

\* A retry_handler that allows one retry more than max_retries.
retry_once_more(t, e, q, i) ==
    IF e.kind = ExternalServiceKind /\ t.attempt < QuestionMaxRetries + 1
    THEN [t EXCEPT !.pc = "sleep_q"]
    ELSE Resolve(t, e, q, i)

\* An attempt of _answer_single_question raised e: retry_handler (line 112)
\* retries ExternalServiceError up to max_retries times, anything else and the
\* last failure propagate to safe_execute_with_fallback.
QuestionAttemptFailed(t, e, q, i) ==
    IF e.kind = ExternalServiceKind /\ t.attempt < QuestionMaxRetries
    THEN [t EXCEPT !.pc = "sleep_q"]
    ELSE Resolve(t, e, q, i)

\* An attempt of generate_answer raised e: retry_handler (line 234).
GenerateAttemptFailed(t, e, q, i) ==
    IF e.kind = ExternalServiceKind /\ t.gen_attempt < GenerateMaxRetries
    THEN [t EXCEPT !.pc = "sleep_gen"]
    ELSE QuestionAttemptFailed(t, e, q, i)

\* generate_answer up to its await of llm.ainvoke (lines 247-280).  The context
\* is never empty here (a context or NO_SEARCH) and the question is not blank.
StartGenerate(t, q, i) ==
    IF ~is_initialized
    THEN GenerateAttemptFailed(t, Err(ExternalServiceKind, "llm"), q, i)
    ELSE [t EXCEPT !.pc = "llm", !.llm_calls = @ + 1]

\* _answer_single_question up to its first await (lines 126-140).
StartAttempt(t, q, i) ==
    IF IsBlank(q)
    THEN QuestionAttemptFailed(t, Err(DocumentProcessingKind, "question_validation"), q, i)
    ELSE [t EXCEPT !.pc = "search", !.gen_attempt = 0, !.context = "", !.searches = @ + 1]

\* The deadlines under which a task in state pc runs, by the operation name of
\* the TimeoutError each one raises.
Deadlines(pc) ==
    CASE pc = "search"    -> {"single_question_processing", "question_idx", "document_retrieval"}
      [] pc = "llm"       -> {"single_question_processing", "question_idx", "answer_generation"}
      [] pc = "sleep_gen" -> {"single_question_processing", "question_idx", "answer_generation"}
      [] pc = "sleep_q"   -> {"single_question_processing"}
      [] OTHER            -> {}

N == Len(questions)

\* What completing a task does to asyncio.gather (return_exceptions=False):
\* the first child exception is set on the gather future.
Complete(i, t) ==
    /\ tasks' = [tasks EXCEPT ![i] = t]
    /\ IF t.pc = "done"
       THEN /\ order' = Append(order, i)
            /\ gather_exc' = IF t.outcome.status = "err" /\ gather_exc.status = "none"
                             THEN t.outcome ELSE gather_exc
       ELSE UNCHANGED <<order, gather_exc>>
    /\ UNCHANGED <<questions, vector_store, batch>>

\* The event loop runs a task created by gather for the first time.
TaskStart(i) ==
    /\ i \in 1..Len(tasks)
    /\ tasks[i].pc = "created"
    /\ Complete(i, StartAttempt(tasks[i], questions[i], i))
    /\ UNCHANGED <<registry_vars, pipeline_vars, rest_vars>>

\* vector_store.similarity_search returned (lines 190-227).
SearchReturns(i) ==
    /\ i \in 1..Len(tasks)
    /\ tasks[i].pc = "search"
    /\ \E found \in {"chunks", "no_docs", "blank_docs"} :
         LET ctx == IF found = "chunks" THEN "Document 1:\n..." ELSE NO_SEARCH
         IN Complete(i, StartGenerate([tasks[i] EXCEPT !.context = ctx], questions[i], i))
    /\ UNCHANGED <<registry_vars, pipeline_vars, rest_vars>>

\* vector_store.similarity_search raised (lines 229-231): VectorStoreError.
SearchFails(i) ==
    /\ i \in 1..Len(tasks)
    /\ tasks[i].pc = "search"
    /\ Complete(i, QuestionAttemptFailed(tasks[i], Err(VectorStoreKind, "document_retrieval"),
                                         questions[i], i))
    /\ UNCHANGED <<registry_vars, pipeline_vars, rest_vars>>

\* llm.ainvoke returned a response with content (lines 282-300).
LlmReturns(i) ==
    /\ i \in 1..Len(tasks)
    /\ tasks[i].pc = "llm"
    /\ \E content \in LlmContents :
         LET answer == Strip(content)
             v == IF answer = "" THEN ValueOf(fallback_answer_generation(questions[i]))
                  ELSE Text(answer, questions[i])
         IN Complete(i, Resolve(tasks[i], Ok(v), questions[i], i))
    /\ UNCHANGED <<registry_vars, pipeline_vars, rest_vars>>

\* llm.ainvoke raised, or returned a response without content (lines 283-287,
\* 305-309): ExternalServiceError.
LlmFails(i) ==
    /\ i \in 1..Len(tasks)
    /\ tasks[i].pc = "llm"
    /\ Complete(i, GenerateAttemptFailed(tasks[i], Err(ExternalServiceKind, "llm"), questions[i], i))
    /\ UNCHANGED <<registry_vars, pipeline_vars, rest_vars>>

\* The backoff sleep of generate_answer's retry_handler ended: next attempt.
SleepGenerateDone(i) ==
    /\ i \in 1..Len(tasks)
    /\ tasks[i].pc = "sleep_gen"
    /\ Complete(i, StartGenerate([tasks[i] EXCEPT !.gen_attempt = @ + 1], questions[i], i))
    /\ UNCHANGED <<registry_vars, pipeline_vars, rest_vars>>

\* The backoff sleep of _answer_single_question's retry_handler ended.
SleepQuestionDone(i) ==
    /\ i \in 1..Len(tasks)
    /\ tasks[i].pc = "sleep_q"
    /\ Complete(i, StartAttempt([tasks[i] EXCEPT !.attempt = @ + 1], questions[i], i))
    /\ UNCHANGED <<registry_vars, pipeline_vars, rest_vars>>

\* One of the deadlines around the pending operation expired.  Every one of
\* them surfaces as CustomExceptions.TimeoutError, which no retry_handler of
\* the task retries.
QuestionTimeout(i) ==
    /\ i \in 1..Len(tasks)
    /\ Running(tasks[i])
    /\ \E d \in Deadlines(tasks[i].pc) :
         Complete(i, Resolve(tasks[i], Err(TimeoutKind, d), questions[i], i))
    /\ UNCHANGED <<registry_vars, pipeline_vars, rest_vars>>

----------------------------------------------------------------------------
\* answer_questions_parallel (lines 44-90)

AllFallback == [i \in 1..N |-> ValueOf(fallback_answer_generation(questions[i]))]

\* The call up to its await of asyncio.gather.
Call ==
    /\ batch.pc = "idle"
    /\ IF N = 0
       THEN batch' = [pc |-> "returned", answers |-> <<>>, error |-> NoOutcome]
       ELSE IF ~vector_store
       THEN batch' = [pc |-> "returned", answers |-> AllFallback, error |-> NoOutcome]
       ELSE batch' = [batch EXCEPT !.pc = "gathering"]
    /\ tasks' = IF N > 0 /\ vector_store THEN [i \in 1..N |-> NewTask] ELSE tasks
    /\ UNCHANGED <<questions, vector_store, order, gather_exc, registry_vars, pipeline_vars, rest_vars>>

\* The gather future is done (every child resolved, or a child raised): the
\* call resumes and returns (lines 79-90).
GatherDone ==
    /\ batch.pc = "gathering"
    /\ \/ gather_exc.status # "none"
       \/ \A i \in 1..N : tasks[i].pc = "done"
    /\ batch' = [batch EXCEPT !.pc = "returned",
                    !.answers = IF gather_exc.status # "none" THEN AllFallback
                                ELSE gather_results(tasks, order)]
    /\ UNCHANGED <<questions, vector_store, tasks, order, gather_exc, registry_vars, pipeline_vars, rest_vars>>

\* The deadline of timeout_handler(LLM_GENERATION_TIMEOUT * 3,
\* "parallel_question_processing") expired before the call returned: wait_for
\* cancels the call, the cancelled gather cancels every child still pending,
\* and the wrapper raises TimeoutError.
BatchTimeout ==
    /\ batch.pc = "gathering"
    /\ batch' = [batch EXCEPT !.pc = "raised",
                    !.error = Err(TimeoutKind, "parallel_question_processing")]
    /\ tasks' = [i \in 1..N |->
                    IF tasks[i].pc = "done" THEN tasks[i]
                    ELSE [tasks[i] EXCEPT !.pc = "cancelled", !.outcome = Cancelled]]
    /\ UNCHANGED <<questions, vector_store, order, gather_exc, registry_vars, pipeline_vars, rest_vars>>

\* RequestMetrics as start_request creates it, and the monitor before any
\* request: no active request, no completed one.
NewMonitor == [active |-> FALSE, operations |-> <<>>, completed |-> <<>>]

\* The run_submission call before it is made.
NewRequest ==
    [pc |-> "idle", nq |-> 0, status |-> 0, error |-> NoOutcome, answers |-> 0,
     document |-> "none", texts |-> {}]

IdlePipeline ==
    /\ request = NewRequest
    /\ monitor = NewMonitor

\* No accessor has been called.
NewAccess == [accessor |-> "none", outcome |-> NoOutcome]

\* health_check() before it is called: no component has a status.
NewHealth ==
    [pc |-> "idle", probing |-> 0, components |-> [r \in Resources |-> ""],
     overall_status |-> "", initialized |-> FALSE, error |-> NoOutcome]

\* No wrapped operation has been called.
NoCall == [pc |-> "idle"]

IdleProbes ==
    /\ access = NewAccess
    /\ health = NewHealth

IdleWrappers ==
    /\ retry = NoCall
    /\ timed = NoCall
    /\ guarded = NoCall

\* No stage is being run on its own.
IdleUnits ==
    /\ generation = NoCall
    /\ index = NoCall

IdleStages ==
    /\ acquire = NoCall
    /\ traces = NoCall
    /\ assembly = NoCall
    /\ IdleUnits

QuestionLists == UNION {[1..n -> QuestionTexts] : n \in 0..MaxQuestions}

InitAnswer ==
    /\ questions \in QuestionLists
    /\ vector_store \in BOOLEAN
    /\ batch = [pc |-> "idle", answers |-> <<>>, error |-> NoOutcome]
    /\ tasks = <<>>
    /\ order = <<>>
    /\ gather_exc = NoOutcome
    /\ \E ready \in BOOLEAN :
         /\ pinecone_client = ready
         /\ embeddings = ready
         /\ llm = ready
    /\ api_keys = [PINECONE_API_KEY |-> TRUE, GOOGLE_API_KEY |-> TRUE]
    /\ init = [pc |-> "not_called", error |-> NoOutcome, gather_exc |-> NoOutcome]
    /\ sub = [r \in Resources |-> NewSubInit]
    /\ IdlePipeline
    /\ IdleProbes
    /\ IdleStages
    /\ IdleWrappers

TaskIds == 1..MaxQuestions

NextAnswer ==
    \/ Call
    \/ GatherDone
    \/ BatchTimeout
    \/ \E i \in TaskIds : TaskStart(i)
    \/ \E i \in TaskIds : SearchReturns(i)
    \/ \E i \in TaskIds : SearchFails(i)
    \/ \E i \in TaskIds : LlmReturns(i)
    \/ \E i \in TaskIds : LlmFails(i)
    \/ \E i \in TaskIds : SleepGenerateDone(i)
    \/ \E i \in TaskIds : SleepQuestionDone(i)
    \/ \E i \in TaskIds : QuestionTimeout(i)

SpecAnswer == InitAnswer /\ [][NextAnswer]_vars

----------------------------------------------------------------------------
\* GlobalResources.initialize (app/global_resources.py, lines 47-241)

Handle(r) ==
    CASE r = "pinecone"   -> pinecone_client
      [] r = "embeddings" -> embeddings
      [] r = "llm"        -> llm

\* self.<handle of r> = <client object>
AssignHandle(r) ==
    /\ pinecone_client' = (pinecone_client \/ r = "pinecone")
    /\ embeddings' = (embeddings \/ r = "embeddings")
    /\ llm' = (llm \/ r = "llm")

\* os.getenv of the key the client of r needs
HasKey(r) == IF r = "pinecone" THEN api_keys.PINECONE_API_KEY ELSE api_keys.GOOGLE_API_KEY

\* operation_name of the timeout_handler around _initialize_<r>_with_retry
InitName(r) ==
    CASE r = "pinecone"   -> "pinecone_initialization"
      [] r = "embeddings" -> "embeddings_initialization"
      [] r = "llm"        -> "llm_initialization"

\* The errors a failed connectivity test of r surfaces as: _initialize_pinecone
\* lets its TimeoutError through, the two others wrap every failure.
TestErrors(r) ==
    IF r = "pinecone"
    THEN {Err(ResourceInitializationKind, r), Err(TimeoutKind, "pinecone_initialization")}
    ELSE {Err(ResourceInitializationKind, r)}

SubDone(x) == x.pc \in {"ok", "failed"}

\* A gather that hands control back only when every child has ended.
gather_waits_for_all(subs, exc) == \A r \in Resources : SubDone(subs[r])

\* asyncio.gather(..., return_exceptions=False): the gather future is done as
\* soon as one child has raised, or when all children have returned.
gather_done(subs, exc) ==
    \/ exc.status # "none"
    \/ \A r \in Resources : subs[r].pc = "ok"

\* An attempt of _initialize_<r> raised e: retry_handler (max_retries=3,
\* exceptions=(Exception,)) sleeps and retries, the last failure propagates.
InitAttemptFailed(x, e) ==
    IF x.attempt < InitMaxRetries
    THEN [x EXCEPT !.pc = "sleep"]
    ELSE [x EXCEPT !.pc = "failed", !.error = e]

\* The state of sub-initialization r becomes x; a child that raised sets the
\* exception of the gather future unless one is set already.
SubBecomes(r, x) ==
    /\ sub' = [sub EXCEPT ![r] = x]
    /\ init' = IF x.pc = "failed" /\ init.gather_exc.status = "none"
               THEN [init EXCEPT !.gather_exc = x.error]
               ELSE init

\* _initialize_<r> up to its await of the connectivity test: the key check and
\* the construction of the client, whose handle is stored before the test.
InitAttempt(r, x) ==
    IF ~HasKey(r)
    THEN /\ SubBecomes(r, InitAttemptFailed(x, Err(ResourceInitializationKind, r)))
         /\ UNCHANGED handle_vars
    ELSE \E constructed \in BOOLEAN :
            IF constructed
            THEN /\ AssignHandle(r)
                 /\ SubBecomes(r, [x EXCEPT !.pc = "testing"])
            ELSE /\ SubBecomes(r, InitAttemptFailed(x, Err(ResourceInitializationKind, r)))
                 /\ UNCHANGED handle_vars

\* initialize() up to its await of asyncio.gather (lines 53-62).
InitializeCall ==
    /\ init.pc = "not_called"
    /\ init' = [init EXCEPT !.pc = "gathering"]
    /\ sub' = [r \in Resources |-> [NewSubInit EXCEPT !.pc = "created"]]
    /\ UNCHANGED <<handle_vars, api_keys, answer_vars, pipeline_vars, rest_vars>>

\* The event loop runs sub-initialization r for the first time.
SubInitStart(r) ==
    /\ sub[r].pc = "created"
    /\ InitAttempt(r, sub[r])
    /\ UNCHANGED <<api_keys, answer_vars, pipeline_vars, rest_vars>>

\* The backoff sleep of the retry_handler of r ended: next attempt.
SubInitRetry(r) ==
    /\ sub[r].pc = "sleep"
    /\ InitAttempt(r, [sub[r] EXCEPT !.attempt = @ + 1])
    /\ UNCHANGED <<api_keys, answer_vars, pipeline_vars, rest_vars>>

\* The connectivity test of r (_ensure_index_exists, _test_embeddings,
\* _test_llm) returned: the sub-initialization returns.
TestPasses(r) ==
    /\ sub[r].pc = "testing"
    /\ SubBecomes(r, [sub[r] EXCEPT !.pc = "ok"])
    /\ UNCHANGED <<handle_vars, api_keys, answer_vars, pipeline_vars, rest_vars>>

\* The connectivity test of r raised or ran into its own deadline.
TestFails(r) ==
    /\ sub[r].pc = "testing"
    /\ \E e \in TestErrors(r) : SubBecomes(r, InitAttemptFailed(sub[r], e))
    /\ UNCHANGED <<handle_vars, api_keys, answer_vars, pipeline_vars, rest_vars>>

\* The deadline of the timeout_handler around _initialize_<r>_with_retry
\* expired during a test or a backoff sleep: the sub-initialization raises
\* TimeoutError, whatever attempts it had left.
SubInitTimeout(r) ==
    /\ sub[r].pc \in {"testing", "sleep"}
    /\ SubBecomes(r, [sub[r] EXCEPT !.pc = "failed", !.error = Err(TimeoutKind, InitName(r))])
    /\ UNCHANGED <<handle_vars, api_keys, answer_vars, pipeline_vars, rest_vars>>

\* The gather future is done: initialize() resumes (lines 64-75).  A child's
\* exception, and a failed is_initialized() check, go through
\* ErrorHandler.handle_startup_error, which raises ResourceInitializationError.
InitializeDone ==
    /\ init.pc = "gathering"
    /\ gather_done(sub, init.gather_exc)
    /\ init' = IF init.gather_exc.status = "none" /\ is_initialized
               THEN [init EXCEPT !.pc = "returned"]
               ELSE [init EXCEPT !.pc = "raised",
                                 !.error = Err(ResourceInitializationKind, "global_resources")]
    /\ UNCHANGED <<handle_vars, api_keys, sub, answer_vars, pipeline_vars, rest_vars>>

IdleAnswer ==
    /\ questions = <<>>
    /\ vector_store = FALSE
    /\ batch = [pc |-> "idle", answers |-> <<>>, error |-> NoOutcome]
    /\ tasks = <<>>
    /\ order = <<>>
    /\ gather_exc = NoOutcome

InitRegistry ==
    /\ pinecone_client = FALSE
    /\ embeddings = FALSE
    /\ llm = FALSE
    /\ api_keys \in [PINECONE_API_KEY : BOOLEAN, GOOGLE_API_KEY : BOOLEAN]
    /\ init = [pc |-> "not_called", error |-> NoOutcome, gather_exc |-> NoOutcome]
    /\ sub = [r \in Resources |-> NewSubInit]
    /\ IdleAnswer
    /\ IdlePipeline
    /\ IdleProbes
    /\ IdleStages
    /\ IdleWrappers

NextRegistry ==
    \/ InitializeCall
    \/ InitializeDone
    \/ \E r \in Resources : SubInitStart(r)
    \/ \E r \in Resources : SubInitRetry(r)
    \/ \E r \in Resources : TestPasses(r)
    \/ \E r \in Resources : TestFails(r)
    \/ \E r \in Resources : SubInitTimeout(r)

SpecRegistry == InitRegistry /\ [][NextRegistry]_vars

----------------------------------------------------------------------------
\* run_submission (main.py, lines 136-288) and the PerformanceMonitor

\* "Too many questions (maximum 10 allowed)"
QuestionLimit == 10

\* len(request.questions) of the requests explored: the empty list, the
\* shortest and the longest accepted list, and the first list that is too long.
QuestionCounts == {0, 1, QuestionLimit, QuestionLimit + 1}

\* The stages with chunking before the acquisition.
stages_chunk_first == <<"document_chunking", "document_download", "vector_store_creation", "answer_generation">>

\* The operation names of the four stages, in the order of run_submission.
Stages == <<"document_download", "document_chunking", "vector_store_creation", "answer_generation">>

StageNames == {Stages[k] : k \in 1..Len(Stages)}

StageIndex(s) == CHOOSE k \in 1..Len(Stages) : Stages[k] = s

\* What the call awaited in a stage can raise by itself: the timeout_handler
\* of process_document_from_url_async (everything else ends in its fallback
\* document), chunk_document_async, get_vector_store, and the batch deadline
\* of answer_questions_parallel.
StageErrors(s) ==
    CASE s = "document_download" -> {Err(TimeoutKind, "document_processing")}
      [] s = "document_chunking" -> {Err(DocumentProcessingKind, "chunking"),
                                     Err(TimeoutKind, "document_chunking")}
      [] s = "vector_store_creation" -> {Err(VectorStoreKind, "create_vector_store")}
      [] OTHER -> {Err(TimeoutKind, "parallel_question_processing")}

\* The texts answer_questions_parallel puts into its list: the stripped
\* content of a response of the model, or the text of
\* fallback_answer_generation.
AnswerTexts == ({Strip(c) : c \in LlmContents} \ {""}) \cup {APOLOGY}

\* What the call awaited in a stage returns.  process_document_from_url_async
\* returns the pages of the document or, when its primary failed (a download
\* that timed out included), the one page of its fallback; the answer stage
\* returns one text per question, given here by the set of the texts.
StageResults(s, nq) ==
    CASE s = "document_download" -> {"pages", "fallback"}
      [] s = "answer_generation" ->
           {t \in SUBSET AnswerTexts : t # {} /\ Cardinality(t) <= nq}
      [] OTHER -> {"done"}

\* ErrorHandler.handle_request_error: the status code of the HTTPException.
handle_request_error(e) ==
    CASE e.kind = TimeoutKind -> 504
      [] e.kind = ExternalServiceKind -> 502
      [] e.kind = DocumentProcessingKind -> 422
      [] e.kind = VectorStoreKind -> 503
      [] OTHER -> 500

\* PerformanceMonitor.start_request
start_request(m) == [m EXCEPT !.active = TRUE, !.operations = <<>>]

\* PerformanceMonitor.finish_request
finish_request(m) ==
    IF m.active
    THEN [m EXCEPT !.active = FALSE,
                   !.completed = Append(@, m.operations),
                   !.operations = <<>>]
    ELSE m

\* The finally clause of PerformanceMonitor.track_operation: the operation is
\* added to the metrics of the request if the request is still active.
track_operation(m, operation_name, success, finished) ==
    IF m.active
    THEN [m EXCEPT !.operations = Append(@, [operation_name |-> operation_name,
                                             success |-> success,
                                             finished |-> finished])]
    ELSE m

\* raise HTTPException(status_code=code)
HttpException(r, code) == [r EXCEPT !.pc = "raised", !.status = code]

too_few_questions(n) == n = 0

too_many_questions_off_by_one(n) == n > QuestionLimit + 1

too_many_questions(n) == n > QuestionLimit

\* run_submission from its call to its first await (lines 144-183): the
\* request is registered with the monitor, then the readiness of the registry
\* and the number of questions are checked.  The HTTPException of a failed
\* check is re-raised by the except clause of line 253, which does not finish
\* the request with the monitor.
RunSubmission(n) ==
    /\ request.pc = "idle"
    /\ monitor' = start_request(monitor)
    /\ LET r == [request EXCEPT !.nq = n]
       IN  request' =
             IF ~is_initialized THEN HttpException(r, 503)
             ELSE IF too_few_questions(n) THEN HttpException(r, 400)
             ELSE IF too_many_questions(n) THEN HttpException(r, 400)
             ELSE [r EXCEPT !.pc = Stages[1]]
    /\ UNCHANGED <<registry_vars, answer_vars, rest_vars>>

\* The call awaited in stage s returned: track_operation records a successful
\* operation and the next stage starts; after the last stage the request is
\* finished with the monitor and the answers are returned (lines 217-251).
StageReturns(s) ==
    /\ request.pc = s
    /\ \E v \in StageResults(s, request.nq) :
         LET m == track_operation(monitor, s, TRUE, TRUE)
             r == IF s = "document_download"
                  THEN [request EXCEPT !.document = v] ELSE request
         IN  IF StageIndex(s) < Len(Stages)
             THEN /\ request' = [r EXCEPT !.pc = Stages[StageIndex(s) + 1]]
                  /\ monitor' = m
             ELSE /\ request' = [r EXCEPT !.pc = "returned", !.status = 200,
                                          !.answers = request.nq, !.texts = v]
                  /\ monitor' = finish_request(m)
    /\ UNCHANGED <<registry_vars, answer_vars, rest_vars>>

\* The call awaited in stage s raised one of the errors of the program:
\* track_operation records a failed operation, and the except clauses of
\* lines 262-273 convert the error without finishing the request.
StageFails(s) ==
    /\ request.pc = s
    /\ \E e \in StageErrors(s) :
         request' = [HttpException(request, handle_request_error(e)) EXCEPT !.error = e]
    /\ monitor' = track_operation(monitor, s, FALSE, TRUE)
    /\ UNCHANGED <<registry_vars, answer_vars, rest_vars>>

\* The asyncio.wait_for of stage s expired: asyncio.TimeoutError, which the
\* except clause of line 256 turns into HTTPException(504).
StageDeadline(s) ==
    /\ request.pc = s
    /\ request' = HttpException(request, 504)
    /\ monitor' = track_operation(monitor, s, FALSE, TRUE)
    /\ UNCHANGED <<registry_vars, answer_vars, rest_vars>>

\* The deadline of timeout_handler(HTTP_TOTAL_TIMEOUT, "api_request") expired
\* while a stage was awaited: run_submission is cancelled (no except clause of
\* it or of track_operation catches CancelledError, the finally clause of
\* track_operation adds the unfinished operation) and the wrapper raises
\* TimeoutError("api_request").
RequestDeadline(s) ==
    /\ request.pc = s
    /\ request' = [request EXCEPT !.pc = "raised", !.error = Err(TimeoutKind, "api_request")]
    /\ monitor' = track_operation(monitor, s, TRUE, FALSE)
    /\ UNCHANGED <<registry_vars, answer_vars, rest_vars>>

InitPipeline == InitRegistry

NextPipeline ==
    \/ InitializeCall
    \/ InitializeDone
    \/ \E r \in Resources : SubInitStart(r)
    \/ \E r \in Resources : SubInitRetry(r)
    \/ \E r \in Resources : TestPasses(r)
    \/ \E r \in Resources : TestFails(r)
    \/ \E r \in Resources : SubInitTimeout(r)
    \/ \E n \in QuestionCounts : RunSubmission(n)
    \/ \E s \in StageNames : StageReturns(s)
    \/ \E s \in StageNames : StageFails(s)
    \/ \E s \in StageNames : StageDeadline(s)
    \/ \E s \in StageNames : RequestDeadline(s)

SpecPipeline == InitPipeline /\ [][NextPipeline]_vars

----------------------------------------------------------------------------
\* The accessors of GlobalResources (app/global_resources.py, lines 243-321)

Accessors == {"get_llm", "get_embeddings", "get_vector_store", "get_vector_store_from_existing_index"}

\* The object an accessor returns.
HandleValue(a) == Text(a, "")

\* get_llm and get_embeddings: the handle, or ResourceInitializationError
\* when the handle is not set.
get_handle(r, a) ==
    IF Handle(r) THEN {Ok(HandleValue(a))} ELSE {Err(ResourceInitializationKind, r)}

\* get_vector_store and get_vector_store_from_existing_index: the
\* ResourceInitializationError raised for a handle that is not set is raised
\* inside the try block, whose "except Exception" turns it, like a failure of
\* PineconeVectorStore, into VectorStoreError(operation).
build_vector_store(a, operation) ==
    IF ~embeddings \/ ~pinecone_client
    THEN {Err(VectorStoreKind, operation)}
    ELSE {Ok(HandleValue(a)), Err(VectorStoreKind, operation)}

AccessorOutcomes(a) ==
    CASE a = "get_llm" -> get_handle("llm", a)
      [] a = "get_embeddings" -> get_handle("embeddings", a)
      [] a = "get_vector_store" -> build_vector_store(a, "create_vector_store")
      [] OTHER -> build_vector_store(a, "get_existing_vector_store")

\* One call of accessor a, whatever the registry is doing.
AccessorCall(a) ==
    /\ \E o \in AccessorOutcomes(a) : access' = [accessor |-> a, outcome |-> o]
    /\ UNCHANGED <<registry_vars, answer_vars, pipeline_vars, health, wrapper_vars, stage_vars>>

InitAccess == InitRegistry

NextAccess ==
    \/ InitializeCall
    \/ InitializeDone
    \/ \E r \in Resources : SubInitStart(r)
    \/ \E r \in Resources : SubInitRetry(r)
    \/ \E r \in Resources : TestPasses(r)
    \/ \E r \in Resources : TestFails(r)
    \/ \E r \in Resources : SubInitTimeout(r)
    \/ \E a \in Accessors : AccessorCall(a)

SpecAccess == InitAccess /\ [][NextAccess]_vars

----------------------------------------------------------------------------
\* GlobalResources.health_check (lines 323-358) and
\* HealthChecker.check_external_service_health (error_handling.py, 297-336)

\* The order in which health_check probes the components.
HealthOrder == <<"pinecone", "embeddings", "llm">>

\* What can happen to a probe awaited under asyncio.wait_for(..., 10.0).
ProbeFates == {"returned", "raised", "expired"}

\* A health check that lets the exception of the probe through.
check_health_uncaught(fate) ==
    CASE fate = "returned" -> [raises |-> FALSE, status |-> "healthy"]
      [] fate = "expired" -> [raises |-> FALSE, status |-> "timeout"]
      [] OTHER -> [raises |-> TRUE, status |-> ""]

\* check_external_service_health: the status it reports for the fate of the
\* probe; both except clauses return a dictionary, none raises.
check_external_service_health(fate) ==
    CASE fate = "returned" -> [raises |-> FALSE, status |-> "healthy"]
      [] fate = "expired" -> [raises |-> FALSE, status |-> "timeout"]
      [] OTHER -> [raises |-> FALSE, status |-> "unhealthy"]

\* An overall status that is healthy as soon as one component is.
overall_any(components) ==
    IF \E r \in Resources : components[r] = "healthy" THEN "healthy" ELSE "unhealthy"

\* overall_status (lines 347-355)
overall_status(components) ==
    IF \A r \in Resources : components[r] = "healthy" THEN "healthy" ELSE "unhealthy"

\* The component probed at position k got its status.
Probed(h, k, fate) ==
    LET res == check_external_service_health(fate)
    IN  IF res.raises
        THEN [h EXCEPT !.pc = "raised", !.probing = 0, !.error = Err("Exception", HealthOrder[k])]
        ELSE [h EXCEPT !.components[HealthOrder[k]] = res.status]

RECURSIVE StartProbe(_, _)
\* health_check goes on with the probe at position k: a probe whose handle is
\* not set raises at once ("... not initialized"), the others await their
\* external call; after the last probe the result is returned.
StartProbe(h, k) ==
    IF h.pc = "raised" THEN h
    ELSE IF k > Len(HealthOrder)
    THEN [h EXCEPT !.pc = "returned", !.probing = 0,
                   !.overall_status = overall_status(h.components),
                   !.initialized = is_initialized]
    ELSE IF Handle(HealthOrder[k])
    THEN [h EXCEPT !.pc = "probing", !.probing = k]
    ELSE StartProbe(Probed(h, k, "raised"), k + 1)

Probing(r) == health.pc = "probing" /\ HealthOrder[health.probing] = r

HealthCheckCall ==
    /\ health.pc = "idle"
    /\ health' = StartProbe(health, 1)
    /\ UNCHANGED <<registry_vars, answer_vars, pipeline_vars, access, wrapper_vars, stage_vars>>

\* The probe of r ended with the given fate; health_check goes on.
ProbeEnds(r, fate) ==
    /\ Probing(r)
    /\ health' = StartProbe(Probed(health, health.probing, fate), health.probing + 1)
    /\ UNCHANGED <<registry_vars, answer_vars, pipeline_vars, access, wrapper_vars, stage_vars>>

\* The external call of the probe returned within the limit.
ProbeReturns(r) == ProbeEnds(r, "returned")

\* The external call of the probe raised.
ProbeRaises(r) == ProbeEnds(r, "raised")

\* The 10 s limit of asyncio.wait_for expired before the probe ended.
ProbeExpires(r) == ProbeEnds(r, "expired")

InitHealth == InitRegistry

NextHealth ==
    \/ InitializeCall
    \/ InitializeDone
    \/ \E r \in Resources : SubInitStart(r)
    \/ \E r \in Resources : SubInitRetry(r)
    \/ \E r \in Resources : TestPasses(r)
    \/ \E r \in Resources : TestFails(r)
    \/ \E r \in Resources : SubInitTimeout(r)
    \/ HealthCheckCall
    \/ \E r \in Resources : ProbeReturns(r)
    \/ \E r \in Resources : ProbeRaises(r)
    \/ \E r \in Resources : ProbeExpires(r)

SpecHealth == InitHealth /\ [][NextHealth]_vars

----------------------------------------------------------------------------
\* retry_handler (app/error_handling.py, lines 108-138) around an operation
\* that, each time it is invoked, returns a value or raises an error.

\* backoff_factor values explored, in units of the caller's choice.
BackoffFactors == {1, 2, 3}

\* Exception classes the operation raises; "Exception" is their base class.
RaisedKinds == {"ValueError", "KeyError"}

\* The exceptions tuples given to retry_handler.
ExceptionTuples == {{"ValueError"}, {"ValueError", "KeyError"}, {"Exception"}}

\* Values the operation returns.
ReturnValues == {"success_after_retries", "other"}

\* The error raised by the n-th invocation of the operation.
Raised(kind, n) == [kind |-> kind, invocation |-> n]

NoWrapped == [status |-> "none", value |-> "", error |-> Raised("", 0)]

\* A wrapper that treats every error as retryable.
retries_everything(kind, exceptions) == TRUE

\* "except exceptions as e": the error is an instance of a class of the tuple.
is_retryable(kind, exceptions) == kind \in exceptions \/ "Exception" \in exceptions

\* A wrapper that gives up one attempt early.
gives_up_early(attempt, max_retries) == attempt >= max_retries - 1

\* "if attempt == max_retries"
retries_exhausted(attempt, max_retries) == attempt = max_retries

\* A backoff that grows linearly.
wait_time_linear(backoff_factor, attempt) == backoff_factor * (attempt + 1)

\* wait_time = backoff_factor * (2 ** attempt)
wait_time(backoff_factor, attempt) == backoff_factor * (2 ^ attempt)

\* A wrapper that raises the first error it saw.
raise_first(errors) == errors[1]

\* The bare "raise" of the except clause: the error just caught.
reraise(errors) == errors[Len(errors)]

\* The wrapper is called: the first invocation of the operation (attempt 0).
RetryCall ==
    /\ retry.pc = "created"
    /\ retry' = [retry EXCEPT !.pc = "running", !.calls = 1]
    /\ UNCHANGED <<registry_vars, answer_vars, pipeline_vars, probe_vars, timed, guarded, stage_vars>>

\* The invocation returned v: the wrapper returns it.
OperationReturns(v) ==
    /\ retry.pc = "running"
    /\ retry' = [retry EXCEPT !.pc = "returned",
                              !.outcome = [NoWrapped EXCEPT !.status = "ok", !.value = v]]
    /\ UNCHANGED <<registry_vars, answer_vars, pipeline_vars, probe_vars, timed, guarded, stage_vars>>

\* The invocation raised an error of class kind (lines 125-133).
OperationRaises(kind) ==
    /\ retry.pc = "running"
    /\ LET errors == Append(retry.raised, Raised(kind, retry.calls))
           r == [retry EXCEPT !.raised = errors]
       IN  retry' =
             IF ~is_retryable(kind, retry.exceptions)
             THEN [r EXCEPT !.pc = "raised",
                            !.outcome = [NoWrapped EXCEPT !.status = "err",
                                                          !.error = errors[Len(errors)]]]
             ELSE IF retries_exhausted(retry.attempt, retry.max_retries)
             THEN [r EXCEPT !.pc = "raised",
                            !.outcome = [NoWrapped EXCEPT !.status = "err",
                                                          !.error = reraise(errors)]]
             ELSE [r EXCEPT !.pc = "sleeping",
                            !.waits = Append(@, wait_time(retry.backoff_factor, retry.attempt))]
    /\ UNCHANGED <<registry_vars, answer_vars, pipeline_vars, probe_vars, timed, guarded, stage_vars>>

\* asyncio.sleep(wait_time) ended: the next attempt invokes the operation.
RetrySleepDone ==
    /\ retry.pc = "sleeping"
    /\ retry' = [retry EXCEPT !.pc = "running", !.attempt = @ + 1, !.calls = @ + 1]
    /\ UNCHANGED <<registry_vars, answer_vars, pipeline_vars, probe_vars, timed, guarded, stage_vars>>

InitRetry ==
    /\ \E m \in 0..MaxRetries, b \in BackoffFactors, x \in ExceptionTuples :
         retry = [pc |-> "created", max_retries |-> m, backoff_factor |-> b,
                  exceptions |-> x, attempt |-> 0, calls |-> 0, raised |-> <<>>,
                  waits |-> <<>>, outcome |-> NoWrapped]
    /\ timed = NoCall
    /\ guarded = NoCall
    /\ IdleProbes
    /\ IdleStages
    /\ IdlePipeline
    /\ IdleAnswer
    /\ pinecone_client = FALSE
    /\ embeddings = FALSE
    /\ llm = FALSE
    /\ api_keys = [PINECONE_API_KEY |-> TRUE, GOOGLE_API_KEY |-> TRUE]
    /\ init = [pc |-> "not_called", error |-> NoOutcome, gather_exc |-> NoOutcome]
    /\ sub = [r \in Resources |-> NewSubInit]

NextRetry ==
    \/ RetryCall
    \/ RetrySleepDone
    \/ \E v \in ReturnValues : OperationReturns(v)
    \/ \E kind \in RaisedKinds : OperationRaises(kind)

SpecRetry == InitRetry /\ [][NextRetry]_vars

----------------------------------------------------------------------------
\* timeout_handler (app/error_handling.py, lines 82-105) around an operation
\* that returns a value, raises an error, or is still pending when the
\* deadline of asyncio.wait_for expires.  The operation is cancellable: it
\* ends when wait_for cancels it.

\* operation_name values explored
OperationNames == {"api_request", "document_chunking", "answer_generation", "test_operation"}

\* timeout_seconds values explored (seconds, from TimeoutConfig)
TimeoutLimits == {20, 30, 60, 90, 120}

\* An exception as the wrappers see it: its class, and the operation and
\* timeout attributes of a CustomExceptions.TimeoutError.
Exc(kind, operation, timeout) == [kind |-> kind, operation |-> operation, timeout |-> timeout]

NoExc == Exc("", "", 0)

\* What the wrapped operation can raise by itself: an ordinary error, the
\* CustomExceptions.TimeoutError of a deadline inside it, and the
\* asyncio.TimeoutError of an asyncio.wait_for inside it that it lets through.
OperationErrors ==
    {Exc("ValueError", "", 0),
     Exc(TimeoutKind, "vector_search", 30),
     Exc("asyncio.TimeoutError", "", 0)}

\* A TimeoutError that does not carry the name of the wrapper.
timeout_error_unnamed(operation_name, timeout_seconds) ==
    Exc(TimeoutKind, "", timeout_seconds)

\* raise CustomExceptions.TimeoutError(operation_name, timeout_seconds)
timeout_error(operation_name, timeout_seconds) ==
    Exc(TimeoutKind, operation_name, timeout_seconds)

\* The except clauses of the wrapper (lines 98-103) applied to an exception
\* leaving asyncio.wait_for: an asyncio.TimeoutError is replaced, whatever
\* raised it; everything else is re-raised.
wrapper_raises(e, operation_name, timeout_seconds) ==
    IF e.kind = "asyncio.TimeoutError"
    THEN timeout_error(operation_name, timeout_seconds)
    ELSE e

NoTimedOutcome == [status |-> "none", value |-> "", error |-> NoExc]

\* The wrapper is called: asyncio.wait_for starts the operation.
TimedCall ==
    /\ timed.pc = "created"
    /\ timed' = [timed EXCEPT !.pc = "pending", !.operation = "pending"]
    /\ UNCHANGED <<registry_vars, answer_vars, pipeline_vars, probe_vars, retry, guarded, stage_vars>>

\* The operation returned v before the deadline.
TimedReturns(v) ==
    /\ timed.pc = "pending"
    /\ timed' = [timed EXCEPT !.pc = "returned", !.operation = "returned",
                              !.outcome = [NoTimedOutcome EXCEPT !.status = "ok", !.value = v]]
    /\ UNCHANGED <<registry_vars, answer_vars, pipeline_vars, probe_vars, retry, guarded, stage_vars>>

\* The operation raised e before the deadline.
TimedRaises(e) ==
    /\ timed.pc = "pending"
    /\ timed' = [timed EXCEPT
                   !.pc = "raised", !.operation = "raised",
                   !.outcome = [NoTimedOutcome EXCEPT
                                  !.status = "err",
                                  !.error = wrapper_raises(e, timed.operation_name,
                                                           timed.timeout_seconds)]]
    /\ UNCHANGED <<registry_vars, answer_vars, pipeline_vars, probe_vars, retry, guarded, stage_vars>>

\* The deadline expired: asyncio.wait_for cancels the operation and raises
\* asyncio.TimeoutError, which the wrapper replaces.
TimedExpires ==
    /\ timed.pc = "pending"
    /\ timed' = [timed EXCEPT
                   !.pc = "raised", !.operation = "cancelled",
                   !.outcome = [NoTimedOutcome EXCEPT
                                  !.status = "err",
                                  !.error = wrapper_raises(Exc("asyncio.TimeoutError", "", 0),
                                                           timed.operation_name,
                                                           timed.timeout_seconds)]]
    /\ UNCHANGED <<registry_vars, answer_vars, pipeline_vars, probe_vars, retry, guarded, stage_vars>>

\* The registry, the batch and the request when none of them is in use.
IdleService ==
    /\ IdleProbes
    /\ IdlePipeline
    /\ IdleAnswer
    /\ pinecone_client = FALSE
    /\ embeddings = FALSE
    /\ llm = FALSE
    /\ api_keys = [PINECONE_API_KEY |-> TRUE, GOOGLE_API_KEY |-> TRUE]
    /\ init = [pc |-> "not_called", error |-> NoOutcome, gather_exc |-> NoOutcome]
    /\ sub = [r \in Resources |-> NewSubInit]

InitTimeout ==
    /\ \E n \in OperationNames, t \in TimeoutLimits :
         timed = [pc |-> "created", operation_name |-> n, timeout_seconds |-> t,
                  operation |-> "created", outcome |-> NoTimedOutcome]
    /\ retry = NoCall
    /\ guarded = NoCall
    /\ IdleStages
    /\ IdleService

NextTimeout ==
    \/ TimedCall
    \/ TimedExpires
    \/ \E v \in ReturnValues : TimedReturns(v)
    \/ \E e \in OperationErrors : TimedRaises(e)

SpecTimeout == InitTimeout /\ [][NextTimeout]_vars

----------------------------------------------------------------------------
\* ErrorHandler.safe_execute_with_fallback (app/error_handling.py, lines
\* 273-293) around a primary and a fallback that each return a value or raise.

\* The positional arguments (*args) of the call, as one value.
ArgumentLists == {"https://example.com/policy.pdf", "What is covered?", ""}

PrimaryValues == {"primary_result", "answer"}

FallbackValues == {"fallback_result", "placeholder"}

\* An exception of the given class with the given str(); service is the
\* service attribute of a CustomExceptions.ExternalServiceError.
Failure(kind, service, message) == [kind |-> kind, service |-> service, message |-> message]

NoFailure == Failure("", "", "")

PrimaryFailures == {Failure("Exception", "", "Primary failed"),
                    Failure("ValueError", "", "bad input")}

FallbackFailures == {Failure("RuntimeError", "", "Fallback failed"),
                     Failure("KeyError", "", "no placeholder")}

\* A fallback invoked without the arguments of the call.
fallback_without_arguments(args) == "no arguments"

\* await fallback_func(*args, **kwargs): the arguments the fallback receives.
fallback_arguments(args) == args

\* A wrapper that lets the exception of the fallback through.
raise_fallback_error(operation_name, e, fallback_error) == fallback_error

\* raise CustomExceptions.ExternalServiceError(operation_name, str(e)), e being
\* the exception of the primary.
both_failed(operation_name, e, fallback_error) ==
    Failure(ExternalServiceKind, operation_name, e.message)

NoGuardedOutcome == [status |-> "none", value |-> "", error |-> NoFailure]

\* The wrapper is called: it awaits the primary with the arguments.
GuardedCall ==
    /\ guarded.pc = "created"
    /\ guarded' = [guarded EXCEPT !.pc = "primary", !.primary_calls = <<guarded.args>>]
    /\ UNCHANGED <<registry_vars, answer_vars, pipeline_vars, probe_vars, retry, timed, stage_vars>>

\* The primary returned v: the wrapper returns it.
PrimaryReturns(v) ==
    /\ guarded.pc = "primary"
    /\ guarded' = [guarded EXCEPT
                     !.pc = "returned",
                     !.outcome = [NoGuardedOutcome EXCEPT !.status = "ok", !.value = v]]
    /\ UNCHANGED <<registry_vars, answer_vars, pipeline_vars, probe_vars, retry, timed, stage_vars>>

\* The primary raised e: the wrapper awaits the fallback.
PrimaryRaises(e) ==
    /\ guarded.pc = "primary"
    /\ guarded' = [guarded EXCEPT
                     !.pc = "fallback",
                     !.primary_error = e,
                     !.fallback_calls = <<fallback_arguments(guarded.args)>>]
    /\ UNCHANGED <<registry_vars, answer_vars, pipeline_vars, probe_vars, retry, timed, stage_vars>>

\* The fallback returned v: the wrapper returns it.
FallbackReturns(v) ==
    /\ guarded.pc = "fallback"
    /\ guarded' = [guarded EXCEPT
                     !.pc = "returned",
                     !.outcome = [NoGuardedOutcome EXCEPT !.status = "ok", !.value = v]]
    /\ UNCHANGED <<registry_vars, answer_vars, pipeline_vars, probe_vars, retry, timed, stage_vars>>

\* The fallback raised too.
FallbackRaises(e) ==
    /\ guarded.pc = "fallback"
    /\ guarded' = [guarded EXCEPT
                     !.pc = "raised",
                     !.fallback_error = e,
                     !.outcome = [NoGuardedOutcome EXCEPT
                                    !.status = "err",
                                    !.error = both_failed(guarded.operation_name,
                                                          guarded.primary_error, e)]]
    /\ UNCHANGED <<registry_vars, answer_vars, pipeline_vars, probe_vars, retry, timed, stage_vars>>

InitFallback ==
    /\ \E n \in OperationNames, a \in ArgumentLists :
         guarded = [pc |-> "created", operation_name |-> n, args |-> a,
                    primary_calls |-> <<>>, fallback_calls |-> <<>>,
                    primary_error |-> NoFailure, fallback_error |-> NoFailure,
                    outcome |-> NoGuardedOutcome]
    /\ retry = NoCall
    /\ timed = NoCall
    /\ IdleStages
    /\ IdleService

NextFallback ==
    \/ GuardedCall
    \/ \E v \in PrimaryValues : PrimaryReturns(v)
    \/ \E e \in PrimaryFailures : PrimaryRaises(e)
    \/ \E v \in FallbackValues : FallbackReturns(v)
    \/ \E e \in FallbackFailures : FallbackRaises(e)

SpecFallback == InitFallback /\ [][NextFallback]_vars

----------------------------------------------------------------------------
\* process_document_from_url_async (app/input_documents.py): one call, the
\* HTTP response it receives and the temporary storage it writes
\* (specification SpecDocument).  Sizes are counted in megabytes.

\* FallbackMechanisms.fallback_document_processing
DOCUMENT_FALLBACK == "Document processing failed. Please try again with a different document or check the URL."

\* The size limit of line 105, in megabytes.
SizeCeiling == 50

\* Megabytes written to the temporary file by one modelled write step (the
\* code writes 8192 bytes at a time).
WriteStep == 10

\* URLs passed to the call; the empty one fails the check of line 45.
Urls == {"", "https://example.com/policy.pdf"}

\* temp_file_path = None
None == ""

\* The name NamedTemporaryFile gives to the file it creates.
TempPath == "/tmp/tmpa1b2c3.pdf"

HttpStatuses == {200, 404}

\* Sizes of the response body; 0 as a content-length stands for no header.
BodySizes == {0, WriteStep, SizeCeiling, SizeCeiling + WriteStep}

\* langchain Document(page_content=..., metadata={"source": ..., "fallback": ...})
Page(content, source, fallback) ==
    [page_content |-> content, metadata |-> [source |-> source, fallback |-> fallback]]

\* What PyPDFLoader(...).load() returns: no page, too little text, one or
\* two pages of text.
LoaderResults ==
    {<<>>,
     <<Page("Page 1", TempPath, FALSE)>>,
     <<Page("This policy covers hospitalisation.", TempPath, FALSE)>>,
     <<Page("This policy covers hospitalisation.", TempPath, FALSE),
       Page("Exclusions apply.", TempPath, FALSE)>>}

\* Exceptions aiohttp raises while connecting or reading the body.
TransportErrors == {"ClientError", "asyncio.TimeoutError"}

\* Exceptions leaving the executor call of _process_pdf_with_timeout.
LoaderErrors == {"asyncio.TimeoutError", "PdfReadError"}

\* A list of pages returned by a call.
Loaded(ps) == [status |-> "ok", pages |-> ps, kind |-> "", name |-> ""]

\* The file name returned by _download_document_with_progress.
Downloaded(path) == [status |-> "ok", path |-> path, kind |-> "", name |-> ""]

\* sum(len(doc.page_content) for doc in raw_text)
RECURSIVE total_content(_)
total_content(raw_text) ==
    IF raw_text = <<>> THEN 0
    ELSE Len(Head(raw_text).page_content) + total_content(Tail(raw_text))

\* _download_document_with_progress, line 131: the except clause.
download_except(e) ==
    IF e.kind = "ClientError" THEN Err(ExternalServiceKind, "document_download")
    ELSE e

\* _download_document_with_progress, lines 102-109: the content-length check.
too_large(content_length) == content_length # 0 /\ content_length > SizeCeiling

\* _process_pdf_with_timeout, lines 168-171: the except clauses.
pdf_except(e) ==
    IF e.kind = "asyncio.TimeoutError" THEN Err(TimeoutKind, "pdf_processing")
    ELSE Err(DocumentProcessingKind, "pdf_processing")

\* _process_pdf_with_timeout on what the loader returned; the errors raised
\* at lines 152 and 160 are raised inside the try block.
process_pdf(raw_text) ==
    IF raw_text = <<>> THEN pdf_except(Err(DocumentProcessingKind, "pdf_processing"))
    ELSE IF total_content(raw_text) < 10
         THEN pdf_except(Err(DocumentProcessingKind, "content_validation"))
    ELSE Loaded(raw_text)

\* http_session_with_timeout (app/error_handling.py, lines 162-171): an
\* exception leaving the body of the "async with" is replaced.
session_exit(e) == Err(ExternalServiceKind, "HTTP")

\* _process_document_primary, lines 69-79: the except clauses.
primary_except(e) ==
    IF e.kind = "ClientError" THEN Err(ExternalServiceKind, "document_download")
    ELSE IF e.kind = "asyncio.TimeoutError" THEN Err(TimeoutKind, "document_download")
    ELSE IF e.kind = DocumentProcessingKind THEN e
    ELSE Err(DocumentProcessingKind, "unexpected_error")

\* _cleanup_temp_file
cleanup_temp_file(files, temp_file_path) ==
    IF temp_file_path # None /\ temp_file_path \in files
    THEN files \ {temp_file_path}
    ELSE files

\* A fallback page that does not name the URL.
fallback_without_source(url) == <<Page(DOCUMENT_FALLBACK, None, TRUE)>>

\* _process_document_fallback
process_document_fallback(url) == <<Page(DOCUMENT_FALLBACK, url, TRUE)>>

\* The body of process_document_from_url_async, given the outcome of the
\* primary.  retry_handler retries aiohttp.ClientError and
\* asyncio.TimeoutError only, and safe_execute_with_fallback raises neither.
\* The failure of the primary reaches the caller as a transport error.
reraise_transport(primary, url) ==
    IF primary.status = "err" THEN Err("ClientError", "") ELSE primary

process_document(primary, url) ==
    safe_execute_with_fallback(primary, Loaded(process_document_fallback(url)),
                               "document_processing")

DocumentMaxRetries == 3

\* retry_handler(max_retries=3, exceptions=(aiohttp.ClientError,
\* asyncio.TimeoutError)) of line 23: the call that ended with outcome o after
\* runs attempts is made again.
document_retry(o, runs) ==
    /\ o.status = "err"
    /\ o.kind \in TransportErrors
    /\ runs <= DocumentMaxRetries

NewAcquire ==
    [pc |-> "created", url |-> "", content_length |-> 0, body |-> 0,
     downloaded_size |-> 0, files |-> {}, temp_file_path |-> None,
     primary_runs |-> 0,
     download |-> NoOutcome, primary |-> NoOutcome, outcome |-> NoOutcome]

\* The primary ends (return or raise): its finally clause runs, then the
\* fallback if it raised; none of the two suspends.  The retry_handler around
\* them makes the call again when its outcome is one it retries.
PrimaryEnds(a, download, primary) ==
    LET o == process_document(primary, a.url)
    IN  [a EXCEPT !.pc = IF document_retry(o, a.primary_runs) THEN "created"
                         ELSE IF o.status = "ok" THEN "returned" ELSE "raised",
                  !.files = cleanup_temp_file(a.files, a.temp_file_path),
                  !.temp_file_path = IF document_retry(o, a.primary_runs) THEN None ELSE @,
                  !.download = download,
                  !.primary = primary,
                  !.outcome = IF document_retry(o, a.primary_runs) THEN NoOutcome ELSE o]

\* The call is cancelled while the primary is suspended: CancelledError runs
\* the finally clause and passes every "except Exception".
PrimaryCancelled(a, e) ==
    [a EXCEPT !.pc = "raised",
              !.files = cleanup_temp_file(a.files, a.temp_file_path),
              !.primary = Cancelled,
              !.outcome = e]

Suspended(a) == a.pc \in {"connecting", "streaming", "extracting"}

DocumentOthers == <<registry_vars, answer_vars, pipeline_vars, probe_vars, wrapper_vars, traces, assembly, unit_vars>>

\* The call, up to session.get (line 88).
ProcessCall(url) ==
    /\ acquire.pc = "created"
    /\ acquire.primary_runs > 0 => url = acquire.url
    /\ acquire' =
         IF url = ""
         THEN PrimaryEnds([acquire EXCEPT !.url = url, !.primary_runs = @ + 1], NoOutcome,
                          primary_except(Err(DocumentProcessingKind, "url_validation")))
         ELSE [acquire EXCEPT !.pc = "connecting", !.url = url, !.primary_runs = @ + 1]
    /\ UNCHANGED DocumentOthers

\* The response headers arrive: lines 90-118.
ResponseArrives(status, content_length, body) ==
    /\ acquire.pc = "connecting"
    /\ content_length \in {0, body}
    /\ acquire' =
         IF status # 200
         THEN PrimaryEnds(acquire,
                          download_except(Err(ExternalServiceKind, "document_download")),
                          primary_except(session_exit(
                              download_except(Err(ExternalServiceKind, "document_download")))))
         ELSE IF too_large(content_length)
         THEN PrimaryEnds([acquire EXCEPT !.content_length = content_length, !.body = body],
                          download_except(Err(DocumentProcessingKind, "file_size")),
                          primary_except(session_exit(
                              download_except(Err(DocumentProcessingKind, "file_size")))))
         ELSE [acquire EXCEPT !.pc = "streaming",
                              !.content_length = content_length,
                              !.body = body,
                              !.files = @ \cup {TempPath},
                              !.downloaded_size = 0]
    /\ UNCHANGED DocumentOthers

\* session.get raises.
ConnectFails(kind) ==
    /\ acquire.pc = "connecting"
    /\ acquire' = PrimaryEnds(acquire, download_except(Err(kind, "")),
                              primary_except(session_exit(download_except(Err(kind, "")))))
    /\ UNCHANGED DocumentOthers

\* One pass of the loop of lines 119-121.
ChunkWritten ==
    /\ acquire.pc = "streaming"
    /\ acquire.downloaded_size < acquire.body
    /\ LET n == IF acquire.downloaded_size + WriteStep > acquire.body
                THEN acquire.body - acquire.downloaded_size ELSE WriteStep
       IN acquire' = [acquire EXCEPT !.downloaded_size = @ + n]
    /\ UNCHANGED DocumentOthers

\* The body is exhausted: the download returns the file name (line 129).
StreamEnds ==
    /\ acquire.pc = "streaming"
    /\ acquire.downloaded_size = acquire.body
    /\ acquire' = [acquire EXCEPT !.pc = "extracting",
                                  !.temp_file_path = TempPath,
                                  !.download = Downloaded(TempPath)]
    /\ UNCHANGED DocumentOthers

\* Reading the body raises.
StreamFails(kind) ==
    /\ acquire.pc = "streaming"
    /\ acquire' = PrimaryEnds(acquire, download_except(Err(kind, "")),
                              primary_except(session_exit(download_except(Err(kind, "")))))
    /\ UNCHANGED DocumentOthers

\* The loader returns.
ExtractReturns(raw_text) ==
    /\ acquire.pc = "extracting"
    /\ acquire' =
         IF process_pdf(raw_text).status = "ok"
         THEN PrimaryEnds(acquire, acquire.download, process_pdf(raw_text))
         ELSE PrimaryEnds(acquire, acquire.download,
                          primary_except(session_exit(process_pdf(raw_text))))
    /\ UNCHANGED DocumentOthers

\* The loader raises, or its deadline (line 147) expires.
ExtractFails(kind) ==
    /\ acquire.pc = "extracting"
    /\ acquire' = PrimaryEnds(acquire, acquire.download,
                              primary_except(session_exit(pdf_except(Err(kind, "")))))
    /\ UNCHANGED DocumentOthers

\* The deadline of the timeout_handler of line 22 expires.
AcquireDeadline ==
    /\ Suspended(acquire)
    /\ acquire' = PrimaryCancelled(acquire, Err(TimeoutKind, "document_processing"))
    /\ UNCHANGED DocumentOthers

\* The caller is cancelled (the deadlines of main.py).
AcquireCancelled ==
    /\ Suspended(acquire)
    /\ acquire' = PrimaryCancelled(acquire, Cancelled)
    /\ UNCHANGED DocumentOthers

InitDocument ==
    /\ acquire = NewAcquire
    /\ traces = NoCall
    /\ assembly = NoCall
    /\ IdleUnits
    /\ IdleWrappers
    /\ IdleService

NextDocument ==
    \/ \E url \in Urls : ProcessCall(url)
    \/ \E status \in HttpStatuses, content_length \in BodySizes, body \in BodySizes :
         ResponseArrives(status, content_length, body)
    \/ \E kind \in TransportErrors : ConnectFails(kind)
    \/ ChunkWritten
    \/ StreamEnds
    \/ \E kind \in TransportErrors : StreamFails(kind)
    \/ \E raw_text \in LoaderResults : ExtractReturns(raw_text)
    \/ \E kind \in LoaderErrors : ExtractFails(kind)
    \/ AcquireDeadline
    \/ AcquireCancelled

SpecDocument == InitDocument /\ [][NextDocument]_vars

----------------------------------------------------------------------------
\* PerformanceMonitor.start_request and finish_request
\* (app/performance_monitor.py, lines 211-242) called by concurrent callers
\* (specification SpecMonitor).  Each method runs under self._lock; a caller
\* is shown taking the lock and, in a later step, leaving the method.

\* The capacity of the buffer of completed requests explored; it stands for
\* _max_completed_requests = 100.
MaxCompletedRequests == 3

\* The number of requests started in one behaviour.
MaxRequests == 5

Callers == {1, 2}

\* The request ids handed out so far are 1..started.
RequestIds == 1..MaxRequests

\* A trimming that keeps the oldest entries.
trim_keep_oldest(completed) ==
    IF Len(completed) > MaxCompletedRequests
    THEN SubSeq(completed, 1, MaxCompletedRequests)
    ELSE completed

\* finish_request, lines 236-237:
\* self._completed_requests[-self._max_completed_requests:]
trim_completed(completed) ==
    IF Len(completed) > MaxCompletedRequests
    THEN SubSeq(completed, Len(completed) - MaxCompletedRequests + 1, Len(completed))
    ELSE completed

\* The operations recorded for one request in one behaviour.
MaxOperations == 1

\* The methods of PerformanceMonitor that enter "with self._lock"
LockingMethods == {"start_request", "finish_request", "track_operation", "get_performance_stats"}

\* finish_request reads the statistics while it holds the lock.
locked_calls_with_stats(method) ==
    IF method = "finish_request" THEN {"_log_request_summary", "get_performance_stats"} ELSE {}

\* The methods of the monitor a method calls inside its "with self._lock"
\* block: finish_request calls _log_request_summary (line 240), which calls
\* none (lines 243-330); the other blocks call none.
locked_calls(method) ==
    IF method = "finish_request" THEN {"_log_request_summary"} ELSE {}

\* threading.Lock is not reentrant: a block that calls a locking method waits
\* for the lock its own thread holds.
reenters(method) == locked_calls(method) \cap LockingMethods # {}

\* The end of the "with self._lock" block of method, run by caller c: the
\* lock is released and the caller returns, unless the block waits for the
\* lock itself.
leave(t, c, method) ==
    IF reenters(method)
    THEN [t EXCEPT !.caller[c].pc = "blocked"]
    ELSE [t EXCEPT !.lock = 0, !.caller[c] = [pc |-> "idle", id |-> 0]]

\* The monitor after __init__.  history is not a field of the program: it
\* lists every request finished so far, in the order of completion.
\* operations counts the operations added to each request.
NewTraces ==
    [lock |-> 0, active |-> {}, completed |-> <<>>, history |-> <<>>, started |-> 0,
     operations |-> [id \in RequestIds |-> 0],
     caller |-> [c \in Callers |-> [pc |-> "idle", id |-> 0]]]

MonitorOthers == <<registry_vars, answer_vars, pipeline_vars, probe_vars, wrapper_vars, acquire, assembly, unit_vars>>

\* start_request: "with self._lock" entered.
StartRequestEnter(c) ==
    /\ traces.caller[c].pc = "idle"
    /\ traces.lock = 0
    /\ traces.started < MaxRequests
    /\ traces' = [traces EXCEPT !.lock = c,
                                !.started = @ + 1,
                                !.caller[c] = [pc |-> "start", id |-> traces.started + 1]]
    /\ UNCHANGED MonitorOthers

\* start_request: the metrics are stored and the lock is released.
StartRequestExit(c) ==
    /\ traces.caller[c].pc = "start"
    /\ traces' = leave([traces EXCEPT !.active = @ \cup {traces.caller[c].id}],
                       c, "start_request")
    /\ UNCHANGED MonitorOthers

\* finish_request(request_id): "with self._lock" entered.
FinishRequestEnter(c, request_id) ==
    /\ traces.caller[c].pc = "idle"
    /\ traces.lock = 0
    /\ request_id <= traces.started
    /\ traces' = [traces EXCEPT !.lock = c,
                                !.caller[c] = [pc |-> "finish", id |-> request_id]]
    /\ UNCHANGED MonitorOthers

\* finish_request, lines 227-233: the request is popped from the active ones
\* and appended to the completed ones, or None is returned.
FinishRequestAppend(c) ==
    /\ traces.caller[c].pc = "finish"
    /\ traces' =
         IF traces.caller[c].id \in traces.active
         THEN [traces EXCEPT !.active = @ \ {traces.caller[c].id},
                             !.completed = Append(@, traces.caller[c].id),
                             !.history = Append(@, traces.caller[c].id),
                             !.caller[c].pc = "trim"]
         ELSE [traces EXCEPT !.lock = 0,
                             !.caller[c] = [pc |-> "idle", id |-> 0]]
    /\ UNCHANGED MonitorOthers

\* finish_request, lines 236-241: the buffer is trimmed, the summary is
\* logged, the lock released.
FinishRequestExit(c) ==
    /\ traces.caller[c].pc = "trim"
    /\ traces' = leave([traces EXCEPT !.completed = trim_completed(@)], c, "finish_request")
    /\ UNCHANGED MonitorOthers

\* track_operation(request_id, ...), line 381: the finally clause enters
\* "with self._lock" when the tracked block has ended.
TrackOperationEnter(c, request_id) ==
    /\ traces.caller[c].pc = "idle"
    /\ traces.lock = 0
    /\ request_id <= traces.started
    /\ traces.operations[request_id] < MaxOperations
    /\ traces' = [traces EXCEPT !.lock = c,
                                !.caller[c] = [pc |-> "track", id |-> request_id]]
    /\ UNCHANGED MonitorOthers

\* track_operation, lines 382-383: the operation is added to the request if
\* it is still active, the lock released.
TrackOperationExit(c) ==
    /\ traces.caller[c].pc = "track"
    /\ traces' = leave(IF traces.caller[c].id \in traces.active
                       THEN [traces EXCEPT !.operations[traces.caller[c].id] = @ + 1]
                       ELSE traces,
                       c, "track_operation")
    /\ UNCHANGED MonitorOthers

\* get_performance_stats: "with self._lock" entered (line 387).
GetPerformanceStatsEnter(c) ==
    /\ traces.caller[c].pc = "idle"
    /\ traces.lock = 0
    /\ traces' = [traces EXCEPT !.lock = c, !.caller[c] = [pc |-> "stats", id |-> 0]]
    /\ UNCHANGED MonitorOthers

\* get_performance_stats: the statistics of the completed requests are
\* computed and returned, nothing of the monitor is changed.
GetPerformanceStatsExit(c) ==
    /\ traces.caller[c].pc = "stats"
    /\ traces' = leave(traces, c, "get_performance_stats")
    /\ UNCHANGED MonitorOthers

InitMonitor ==
    /\ traces = NewTraces
    /\ acquire = NoCall
    /\ assembly = NoCall
    /\ IdleUnits
    /\ IdleWrappers
    /\ IdleService

NextMonitor ==
    \/ \E c \in Callers : StartRequestEnter(c)
    \/ \E c \in Callers : StartRequestExit(c)
    \/ \E c \in Callers, request_id \in RequestIds : FinishRequestEnter(c, request_id)
    \/ \E c \in Callers : FinishRequestAppend(c)
    \/ \E c \in Callers : FinishRequestExit(c)
    \/ \E c \in Callers, request_id \in RequestIds : TrackOperationEnter(c, request_id)
    \/ \E c \in Callers : TrackOperationExit(c)
    \/ \E c \in Callers : GetPerformanceStatsEnter(c)
    \/ \E c \in Callers : GetPerformanceStatsExit(c)

SpecMonitor == InitMonitor /\ [][NextMonitor]_vars

----------------------------------------------------------------------------
\* DirectAnswerGenerator._retrieve_relevant_docs, lines 195-227: the context
\* assembled from the chunks the similarity search returned (specification
\* SpecAssembly).  A chunk is given by the number of characters of its text
\* and of the whitespace around it; strings are given by their lengths.

\* The largest number of chunks a search returns (k = 3 by default).
MaxChunks == 3

\* max_context_length = 4000
max_context_length == 4000

\* The least remaining space that is filled with a truncated chunk is one
\* more than this (line 213).
meaningful_space == 100

\* doc.page_content of a retrieved chunk
Chunk(text, space) == [text |-> text, space |-> space]

\* The chunks explored: empty, whitespace only, and texts that fit, fill the
\* budget, leave 100 or 50 characters of it, or exceed it alone.
Chunks ==
    {Chunk(0, 0), Chunk(0, 2), Chunk(150, 2), Chunk(2000, 0),
     Chunk(3900, 0), Chunk(3950, 0), Chunk(4100, 0)}

DocLists == UNION {[1..n -> Chunks] : n \in 0..MaxChunks}

\* len(doc.page_content.strip())
strip_len(doc) == doc.text

\* len(f"Document {i}:\n")
label_len(i) == Len("Document ") + (IF i < 10 THEN 1 ELSE 2) + Len(":") + 1

\* len("...")
ellipsis_len == Len("...")

\* One element of context_parts: f"Document {i}:\n{doc_content}"
Part(i, content_len, truncated) ==
    [ordinal |-> i, content_len |-> content_len, truncated |-> truncated]

part_len(p) == label_len(p.ordinal) + p.content_len

\* len("\n\n".join(context_parts))
RECURSIVE join_len(_)
join_len(context_parts) ==
    IF context_parts = <<>> THEN 0
    ELSE IF Len(context_parts) = 1 THEN part_len(context_parts[1])
    ELSE part_len(Head(context_parts)) + 2 + join_len(Tail(context_parts))

\* The string returned: the joined context or the text of
\* fallback_vector_search.
Context(context_parts) ==
    [kind |-> "context", text |-> "", length |-> join_len(context_parts),
     parts |-> context_parts]

SearchFallback ==
    [kind |-> "fallback", text |-> NO_SEARCH, length |-> Len(NO_SEARCH), parts |-> <<>>]

NoContext == [kind |-> "none", text |-> "", length |-> 0, parts |-> <<>>]

\* Line 211: the chunk does not fit into what is left of the budget.
exceeds(total_length, doc_content_len) ==
    total_length + doc_content_len > max_context_length

\* Line 213: if remaining_space > 100
fills(remaining_space) == remaining_space > meaningful_space

\* Lines 214: doc_content[:remaining_space] + "..."
truncated_len(doc_content_len, remaining_space) ==
    (IF doc_content_len < remaining_space THEN doc_content_len ELSE remaining_space)
    + ellipsis_len

\* A return that joins the parts even when there is none.
join_always(context_parts) == Context(context_parts)

\* Lines 221-227: the value returned after the loop.
assembled(context_parts) ==
    IF context_parts = <<>> THEN SearchFallback ELSE Context(context_parts)

NewAssembly(docs) ==
    [pc |-> "created", docs |-> docs, i |-> 0, context_parts |-> <<>>,
     total_length |-> 0, context |-> NoContext]

AssemblyOthers == <<registry_vars, answer_vars, pipeline_vars, probe_vars, wrapper_vars, acquire, traces, unit_vars>>

\* similarity_search returned docs: lines 195-203.
DocsRetrieved ==
    /\ assembly.pc = "created"
    /\ assembly' =
         IF assembly.docs = <<>>
         THEN [assembly EXCEPT !.pc = "returned", !.context = SearchFallback]
         ELSE [assembly EXCEPT !.pc = "loop", !.i = 1]
    /\ UNCHANGED AssemblyOthers

InLoop == assembly.pc = "loop" /\ assembly.i <= Len(assembly.docs)

\* Lines 206-208: a chunk that is empty after strip() is skipped.
LoopSkip ==
    /\ InLoop
    /\ strip_len(assembly.docs[assembly.i]) = 0
    /\ assembly' = [assembly EXCEPT !.i = @ + 1]
    /\ UNCHANGED AssemblyOthers

\* Lines 211-219: the chunk is appended, whole or truncated.
LoopAppend ==
    /\ InLoop
    /\ LET n == strip_len(assembly.docs[assembly.i])
           remaining_space == max_context_length - assembly.total_length
           cut == exceeds(assembly.total_length, n)
           doc_content_len == IF cut THEN truncated_len(n, remaining_space) ELSE n
       IN  /\ n # 0
           /\ cut => fills(remaining_space)
           /\ assembly' = [assembly EXCEPT
                  !.i = @ + 1,
                  !.context_parts = Append(@, Part(assembly.i, doc_content_len, cut)),
                  !.total_length = @ + doc_content_len]
    /\ UNCHANGED AssemblyOthers

\* Lines 211-216: too little space is left, the loop is left.
LoopBreak ==
    /\ InLoop
    /\ LET n == strip_len(assembly.docs[assembly.i])
           remaining_space == max_context_length - assembly.total_length
       IN  /\ n # 0
           /\ exceeds(assembly.total_length, n)
           /\ ~fills(remaining_space)
    /\ assembly' = [assembly EXCEPT !.pc = "after_loop"]
    /\ UNCHANGED AssemblyOthers

\* Lines 221-227: the loop has ended and the context is returned.
AssemblyReturns ==
    /\ \/ assembly.pc = "after_loop"
       \/ assembly.pc = "loop" /\ assembly.i > Len(assembly.docs)
    /\ assembly' = [assembly EXCEPT !.pc = "returned",
                                    !.context = assembled(assembly.context_parts)]
    /\ UNCHANGED AssemblyOthers

InitAssembly ==
    /\ \E docs \in DocLists : assembly = NewAssembly(docs)
    /\ acquire = NoCall
    /\ traces = NoCall
    /\ IdleUnits
    /\ IdleWrappers
    /\ IdleService

NextAssembly ==
    \/ DocsRetrieved
    \/ LoopSkip
    \/ LoopAppend
    \/ LoopBreak
    \/ AssemblyReturns

SpecAssembly == InitAssembly /\ [][NextAssembly]_vars

----------------------------------------------------------------------------
\* DirectAnswerGenerator.generate_answer (app/direct_answer_generator.py
\* lines 233-309): one run of the body, from the input validation to the
\* returned answer.  The retry_handler and timeout_handler around it are part
\* of SpecAnswer.
\*
\* A string is kept as its leading whitespace, the characters from the first
\* to the last non-whitespace character, and its trailing whitespace.

Str(lead, body, trail) == [lead |-> lead, body |-> body, trail |-> trail]

\* len(s)
str_len(s) == s.lead + s.body + s.trail

\* s.strip()
strip(s) == Str(0, s.body, 0)

Least(a, b) == IF a < b THEN a ELSE b

\* The prompt with nothing cut: the whole string is formatted in.
keep_whole(s, n) == s

\* s[:n]
slice(s, n) ==
    LET lead == Least(s.lead, n)
        body == Least(s.body, n - lead)
    IN  Str(lead, body, Least(s.trail, n - lead - body))

context_limit == 4000
question_limit == 500
short_answer == 10

\* The contexts and questions a caller may pass, around the two limits
Contexts ==
    {Str(lead, body, 0) : lead \in {0, 2}, body \in {0, 3998, 3999, 4000, 4001, 6000}}

Questions ==
    {Str(0, body, trail) : body \in {0, 20, 499, 500, 501}, trail \in {0, 3}}

\* response.content of the completion model, around the 10-character warning
Contents ==
    {Str(lead, body, trail) : lead \in {0, 1}, body \in {0, 1, 9, 10, 40}, trail \in {0, 1}}

NoStr == Str(0, 0, 0)
NoPrompt == [context |-> NoStr, question |-> NoStr]
NoReturn == [status |-> "none", fallback |-> FALSE, text |-> NoStr, kind |-> "", name |-> ""]

\* return answer
Answer(s) == [status |-> "ok", fallback |-> FALSE, text |-> s, kind |-> "", name |-> ""]

\* return await FallbackMechanisms.fallback_answer_generation(question)
Apologised == [status |-> "ok", fallback |-> TRUE, text |-> Str(0, Len(APOLOGY), 0), kind |-> "", name |-> ""]

Raise(k, n) == [status |-> "err", fallback |-> FALSE, text |-> NoStr, kind |-> k, name |-> n]

\* An answer shorter than ten characters is refused.
reject_short(content) ==
    IF str_len(strip(content)) < short_answer THEN Apologised ELSE Answer(strip(content))

\* Lines 289-300: the answer is the trimmed content; an empty one is replaced
\* by the fallback string, a short one is only logged.
validated(content) ==
    IF str_len(strip(content)) = 0 THEN Apologised ELSE Answer(strip(content))

\* The except clauses of lines 302-309
generate_except(kind) ==
    IF kind = "asyncio.TimeoutError" THEN Raise(TimeoutKind, "answer_generation")
    ELSE Raise(ExternalServiceKind, "llm")

GenerationOthers == <<registry_vars, answer_vars, pipeline_vars, probe_vars, wrapper_vars, acquire, traces, assembly, index>>

NewGeneration(context, question, ready) ==
    [pc |-> "called", context |-> context, question |-> question, ready |-> ready,
     prompt |-> NoPrompt, content |-> NoStr, outcome |-> NoReturn]

\* Lines 247-280: the validation of the inputs and the formatting of the prompt
GenerateStart ==
    /\ generation.pc = "called"
    /\ generation' =
         IF generation.context.body = 0
         THEN [generation EXCEPT !.pc = "done", !.outcome = Apologised]
         ELSE IF generation.question.body = 0
         THEN [generation EXCEPT !.pc = "done", !.outcome = generate_except(DocumentProcessingKind)]
         ELSE IF ~generation.ready
         THEN [generation EXCEPT !.pc = "done", !.outcome = generate_except("RuntimeError")]
         ELSE [generation EXCEPT !.pc = "llm",
                                 !.prompt = [context |-> slice(generation.context, context_limit),
                                             question |-> slice(generation.question, question_limit)]]
    /\ UNCHANGED GenerationOthers

\* Lines 277-300: llm.ainvoke returns a response that has a content
LlmResponds(content) ==
    /\ generation.pc = "llm"
    /\ generation' = [generation EXCEPT !.pc = "done", !.content = content,
                                        !.outcome = validated(content)]
    /\ UNCHANGED GenerationOthers

\* Lines 283-287: llm.ainvoke returns nothing usable
LlmRespondsInvalid ==
    /\ generation.pc = "llm"
    /\ generation' = [generation EXCEPT !.pc = "done",
                                        !.outcome = generate_except(ExternalServiceKind)]
    /\ UNCHANGED GenerationOthers

\* Lines 277-280, 302-309: llm.ainvoke raises, or the wait_for around it expires
LlmRaises(kind) ==
    /\ generation.pc = "llm"
    /\ generation' = [generation EXCEPT !.pc = "done", !.outcome = generate_except(kind)]
    /\ UNCHANGED GenerationOthers

InitGenerate ==
    /\ \E context \in Contexts, question \in Questions, ready \in BOOLEAN :
         generation = NewGeneration(context, question, ready)
    /\ index = NoCall
    /\ acquire = NoCall
    /\ traces = NoCall
    /\ assembly = NoCall
    /\ IdleWrappers
    /\ IdleService

NextGenerate ==
    \/ GenerateStart
    \/ \E content \in Contents : LlmResponds(content)
    \/ LlmRespondsInvalid
    \/ \E kind \in {"asyncio.TimeoutError", "Exception"} : LlmRaises(kind)

SpecGenerate == InitGenerate /\ [][NextGenerate]_vars

----------------------------------------------------------------------------
\* The Pinecone index shared by the requests: GlobalResources.get_vector_store
\* (app/global_resources.py lines 243-273) writes the chunks of a request's
\* document into the index named pinecone_index_name (line 42), and
\* _retrieve_relevant_docs (app/direct_answer_generator.py lines 188-193)
\* searches the handle it returns.  No namespace and no filter is passed, and
\* nothing is ever deleted from the index.

IndexRequests == {1, 2}

Documents == {"policy_a.pdf", "policy_b.pdf"}

ChunksPerDocument == 3

\* k of _retrieve_relevant_docs
search_k == 3

\* The chunks chunk_document_async made of document d
ChunksOf(d) == {[document |-> d, n |-> n] : n \in 1..ChunksPerDocument}

\* vector_store.similarity_search(question, k=k): up to k vectors of the
\* index, whichever the embedding of the question ranks first.
similarity_search(vectors) == {S \in SUBSET vectors : Cardinality(S) <= search_k}

NewIndex(documents) ==
    [vectors |-> {},
     request |-> [r \in IndexRequests |->
                     [pc |-> "chunked", document |-> documents[r], retrieved |-> {}]]]

IndexOthers == <<registry_vars, answer_vars, pipeline_vars, probe_vars, wrapper_vars, acquire, traces, assembly, generation>>

\* PineconeVectorStore.from_documents returns: every chunk of the request's
\* document has been upserted into the one index.
CreateVectorStore(r) ==
    /\ index.request[r].pc = "chunked"
    /\ index' = [index EXCEPT !.vectors = @ \cup ChunksOf(index.request[r].document),
                              !.request[r].pc = "indexed"]
    /\ UNCHANGED IndexOthers

\* from_documents raises (VectorStoreError, lines 268-273) after it has
\* upserted some of the batches.
CreateVectorStoreFails(r) ==
    /\ index.request[r].pc = "chunked"
    /\ \E written \in SUBSET ChunksOf(index.request[r].document) :
         /\ written # ChunksOf(index.request[r].document)
         /\ index' = [index EXCEPT !.vectors = @ \cup written,
                                   !.request[r].pc = "failed"]
    /\ UNCHANGED IndexOthers

\* The similarity search of a question of request r returns.
SimilaritySearch(r) ==
    /\ index.request[r].pc = "indexed"
    /\ \E docs \in similarity_search(index.vectors) :
         index' = [index EXCEPT !.request[r].pc = "retrieved",
                                !.request[r].retrieved = docs]
    /\ UNCHANGED IndexOthers

InitIndex ==
    /\ \E documents \in [IndexRequests -> Documents] :
         /\ documents[1] # documents[2]
         /\ index = NewIndex(documents)
    /\ generation = NoCall
    /\ acquire = NoCall
    /\ traces = NoCall
    /\ assembly = NoCall
    /\ IdleWrappers
    /\ IdleService

NextIndex ==
    \/ \E r \in IndexRequests : CreateVectorStore(r)
    \/ \E r \in IndexRequests : CreateVectorStoreFails(r)
    \/ \E r \in IndexRequests : SimilaritySearch(r)

SpecIndex == InitIndex /\ [][NextIndex]_vars

----------------------------------------------------------------------------
\* Properties of answer_questions_parallel (checked under SpecAnswer)

ApologyText == ValueOf(fallback_answer_generation(""))

Returned == batch.pc = "returned"

Fanned == Returned /\ Len(tasks) > 0

PrimaryFailed(i) == tasks[i].primary.status = "err"

\* C1: whenever answer_questions_parallel returns, the list it returns has
\* exactly len(questions) elements, whatever subset of the per-question tasks
\* failed or timed out; the position of a failed task holds the fallback
\* string, it is not left out.
C1_LengthInvariant ==
    Returned =>
        /\ Len(batch.answers) = Len(questions)
        /\ \A i \in 1..Len(tasks) : PrimaryFailed(i) => batch.answers[i] = ApologyText

\* C1 witness: a two-question call has returned two answers although the path
\* of one question failed (timeout or error) and the other one succeeded.
C1_Witness ==
    /\ Fanned /\ N = 2 /\ Len(batch.answers) = 2
    /\ \E i, j \in 1..2 : PrimaryFailed(i) /\ tasks[j].primary.status = "ok"

\* C2: for every completion order of the per-question tasks, the i-th element
\* of the returned list is what the task of questions[i] resolved to: an
\* answer generated for questions[i], or that task's fallback string.
C2_OrderPreserved ==
    Returned =>
        \A i \in 1..Len(batch.answers) :
            /\ batch.answers[i].about \in {"", questions[i]}
            /\ Len(tasks) > 0 => batch.answers[i] = ValueOf(tasks[i].outcome)

\* C2 witness: the task of the second question completed before the task of
\* the first one, both generated an answer, the questions differ, and each
\* answer sits at the position of its question.
C2_Witness ==
    /\ Fanned /\ order = <<2, 1>>
    /\ questions[1] # questions[2]
    /\ batch.answers[1].about = questions[1]
    /\ batch.answers[2].about = questions[2]

\* A step in which the primary path of task i fails.
FailsNow(i) == ~PrimaryFailed(i) /\ (tasks[i].primary.status = "err")'

\* C3 (state part): in the returned list exactly the questions whose own path
\* failed hold the apology in place of their result; every other position
\* holds what that question's own path returned.
C3_OwnResult ==
    Fanned =>
        \A i \in 1..N :
            batch.answers[i] = IF PrimaryFailed(i) THEN ApologyText
                               ELSE ValueOf(tasks[i].primary)

\* C3 (step part): the step in which one question's path fails changes the
\* task of no other question (none is cancelled, failed or resolved by it).
C3_NoSpill ==
    \A i \in 1..Len(tasks) :
        FailsNow(i) => \A j \in 1..Len(tasks) : j # i => tasks[j]' = tasks[j]

\* C3: when the path of one question fails (an exception or a timeout), that
\* question receives the apology string, no other question's task is
\* cancelled or failed by it, and every other question's answer is what its
\* own path produced.
C3_FailureIsolation == [] C3_OwnResult /\ [][C3_NoSpill]_vars

\* C3 witness: of two questions the first one's path failed and the second
\* one's answer is the text generated for it.
C3_Witness ==
    /\ Fanned /\ N = 2
    /\ PrimaryFailed(1) /\ batch.answers[1] = ApologyText
    /\ tasks[2].primary.status = "ok" /\ batch.answers[2].about = questions[2]

\* C4 (the claim as stated): answer_questions_parallel never raises to its
\* caller; when the fan-out as a whole fails, for an absent vector store or
\* for the expiry of the batch deadline, it returns one fallback per question.
C4_NeverRaises ==
    /\ batch.pc # "raised"
    /\ (Returned /\ N > 0 /\ ~vector_store) => batch.answers = AllFallback

\* C5 (the claim as stated): no question task ends in a state other than
\* Answered: a task that has ended has resolved to a string, never to an
\* exception.
C5_AlwaysAnswered ==
    \A i \in 1..Len(tasks) :
        /\ tasks[i].pc # "cancelled"
        /\ tasks[i].pc = "done" => tasks[i].outcome.status = "ok"

----------------------------------------------------------------------------
\* Properties of GlobalResources (checked under SpecRegistry)

TestPassed(r) == sub[r].pc = "ok"

FinallyFailed(r) == sub[r].pc = "failed"

StillRunning(r) == sub[r].pc \in {"created", "testing", "sleep"}

\* C8 (the claim as stated): is_initialized() is true only if each of the three
\* resources has passed its connectivity test; a resource whose test failed or
\* has not finished is never counted as ready.
C8_ReadyOnlyAfterTests ==
    is_initialized => \A r \in Resources : TestPassed(r)

\* C9: initialize() fails with ResourceInitializationError as soon as one
\* sub-initialization has finally failed, without waiting for the others, and
\* returns normally only when all three succeeded.
C9_FailFast ==
    /\ init.pc = "raised" =>
          /\ init.error.kind = ResourceInitializationKind
          /\ \E r \in Resources : FinallyFailed(r)
    /\ init.pc = "returned" => \A r \in Resources : TestPassed(r)
    /\ (init.pc = "gathering" /\ \E r \in Resources : FinallyFailed(r)) =>
          ENABLED InitializeDone

\* C9 witness: initialize() has raised ResourceInitializationError after the
\* failure of one sub-initialization while another one is still running.
C9_Witness ==
    /\ init.pc = "raised"
    /\ init.error.kind = ResourceInitializationKind
    /\ \E r, q \in Resources : FinallyFailed(r) /\ StillRunning(q)

\* The lifecycle of the registry: Uninitialized -> Initializing -> Ready or
\* Failed, the last two terminal.
LifecycleStep ==
    \/ init.pc' = init.pc
    \/ init.pc = "not_called" /\ init.pc' = "gathering"
    \/ init.pc = "gathering" /\ init.pc' \in {"returned", "raised"}

\* C10 (the claim as stated): the lifecycle is Uninitialized -> Initializing
\* -> Ready | Failed with both ends terminal; once initialize() has failed
\* is_initialized() is false, and no sub-initialization still running changes
\* the handles afterwards.
C10_FailedIsTerminal ==
    /\ [][LifecycleStep]_vars
    /\ [](init.pc = "raised" => ~is_initialized)
    /\ [][init.pc = "raised" => UNCHANGED handle_vars]_vars

----------------------------------------------------------------------------
\* Properties of run_submission (checked under SpecPipeline)

\* The registry is Ready: each resource has passed its connectivity test.
RegistryReady == \A r \in Resources : TestPassed(r)

\* The step in which run_submission is called and makes its checks.
Arrives == request.pc = "idle" /\ request'.pc # "idle"

\* No stage of the request has been started.
NoStage == request.pc \in {"idle", "raised"} /\ monitor.operations = <<>>

\* C6 (the claim as stated): a request that arrives while the registry is not
\* Ready fails at once with the service-unavailable condition, and none of
\* the four stages is started.
C6_NotReadyUnavailable ==
    [][(Arrives /\ ~RegistryReady) =>
          (request'.pc = "raised" /\ request'.status = 503 /\ NoStage')]_vars

\* C7: a request that passes the readiness check with fewer than 1 or more
\* than 10 questions is rejected with the client-error status 400; no request
\* with such a list ever starts a stage; a list of 1..10 questions is never
\* rejected with 400.
C7_QuestionCountChecked ==
    /\ [][(Arrives /\ is_initialized) =>
            (request'.nq \notin 1..QuestionLimit <=> request'.status = 400)]_vars
    /\ []((request.pc # "idle" /\ request.nq \notin 1..QuestionLimit) => NoStage)
    /\ [](request.status = 400 => request.nq \notin 1..QuestionLimit)

\* C7 witness: a request with 11 questions has passed the readiness check and
\* has been rejected with status 400, no stage started.
C7_Witness ==
    /\ request.pc = "raised"
    /\ request.nq = QuestionLimit + 1
    /\ request.status = 400
    /\ is_initialized
    /\ monitor.operations = <<>>

----------------------------------------------------------------------------
\* Properties of the accessors (checked under SpecAccess)

\* C11 (the claim as stated): an accessor called while the registry is not
\* Ready fails with ResourceInitializationError and returns no handle.
C11_AccessorsFailBeforeReady ==
    [][((\E a \in Accessors : AccessorCall(a)) /\ ~RegistryReady) =>
          (access'.outcome.status = "err" /\
           access'.outcome.kind = ResourceInitializationKind)]_vars

----------------------------------------------------------------------------
\* Properties of health_check (checked under SpecHealth)

HealthStatuses == {"healthy", "unhealthy", "timeout"}

----------------------------------------------------------------------------
\* Properties of retry_handler (checked under SpecRetry)

\* The error is of a class named in the exceptions tuple of the wrapper.
Retryable(e) == e.kind \in retry.exceptions \/ "Exception" \in retry.exceptions

\* Every error the operation has raised so far was retryable.
OnlyRetryable == \A j \in 1..Len(retry.raised) : Retryable(retry.raised[j])

\* C13: an operation that fails f <= max_retries times with a retryable error
\* and then succeeds makes the wrapper return the value of the operation,
\* after exactly f + 1 invocations; the wrapper does not give up before.
C13_RetryThenSuccess ==
    /\ []((OnlyRetryable /\ Len(retry.raised) <= retry.max_retries) =>
             retry.pc # "raised")
    /\ [](retry.pc = "returned" =>
             /\ retry.outcome.status = "ok"
             /\ Len(retry.raised) <= retry.max_retries
             /\ retry.calls = Len(retry.raised) + 1)
    /\ [][\A v \in ReturnValues :
            OperationReturns(v) => (retry'.pc = "returned" /\ retry'.outcome.value = v)]_vars

\* C13 witness: max_retries = 2, two retryable failures, then success: the
\* wrapper has returned after 3 invocations.
C13_Witness ==
    /\ retry.pc = "returned"
    /\ retry.max_retries = 2
    /\ Len(retry.raised) = 2
    /\ OnlyRetryable
    /\ retry.calls = 3
    /\ retry.outcome.value = "success_after_retries"

\* C14: an operation that always fails with a retryable error is invoked
\* exactly max_retries + 1 times, and the wrapper then raises the last error
\* the operation raised.
C14_RetryExhausted ==
    (retry.pc = "raised" /\ OnlyRetryable) =>
        /\ retry.calls = retry.max_retries + 1
        /\ Len(retry.raised) = retry.max_retries + 1
        /\ retry.outcome.status = "err"
        /\ retry.outcome.error = retry.raised[Len(retry.raised)]
        /\ retry.outcome.error.invocation = retry.calls

\* C14 witness: max_retries = 2, three retryable failures of two classes: the
\* wrapper has raised.
C14_Witness ==
    /\ retry.pc = "raised"
    /\ OnlyRetryable
    /\ retry.max_retries = 2
    /\ retry.calls = 3
    /\ retry.raised[1].kind # retry.raised[3].kind

\* C15: an error of a class that is not retryable propagates at once: no
\* backoff wait follows it, and when it is the first failure the operation
\* has been invoked exactly once.
C15_NonRetryablePropagates ==
    /\ [][\A kind \in RaisedKinds :
            (OperationRaises(kind) /\ ~Retryable(Raised(kind, 0))) =>
                /\ retry'.pc = "raised"
                /\ retry'.outcome.error = Raised(kind, retry.calls)
                /\ retry'.waits = retry.waits]_vars
    /\ []((Len(retry.raised) >= 1 /\ ~Retryable(retry.raised[1])) =>
             /\ retry.pc = "raised"
             /\ retry.calls = 1
             /\ retry.waits = <<>>)

\* C15 witness: the first invocation raised an error that is not retryable
\* although retries were left, and the wrapper has raised it.
C15_Witness ==
    /\ retry.pc = "raised"
    /\ retry.max_retries > 0
    /\ retry.calls = 1
    /\ ~Retryable(retry.raised[1])
    /\ retry.waits = <<>>

\* C16: the wait after the failed attempt a (0-indexed) is backoff_factor *
\* 2^a; there is one wait between two consecutive invocations and none after
\* the final failed attempt.
C16_ExponentialBackoff ==
    /\ \A j \in 1..Len(retry.waits) :
           retry.waits[j] = retry.backoff_factor * (2 ^ (j - 1))
    /\ retry.pc \in {"running", "returned", "raised"} =>
           Len(retry.waits) = retry.calls - 1
    /\ retry.pc = "sleeping" => Len(retry.waits) = retry.calls

\* C16 witness: backoff_factor 3, three waits of 3, 6 and 12, and the fourth
\* attempt failed without a further wait.
C16_Witness ==
    /\ retry.pc = "raised"
    /\ retry.backoff_factor = 3
    /\ retry.waits = <<3, 6, 12>>
    /\ retry.calls = 4

----------------------------------------------------------------------------
\* Properties of timeout_handler (checked under SpecTimeout)

\* The TimeoutError that carries the name and the limit of the wrapper.
OwnTimeout == Exc(TimeoutKind, timed.operation_name, timed.timeout_seconds)

\* C17: an operation still pending when the limit has elapsed is cancelled
\* and the wrapper fails with TimeoutError carrying exactly the name and the
\* limit of the wrapper; an operation that completes before the limit makes
\* the wrapper return the operation's own result.
C17_TimeoutOnExpiry ==
    /\ [][TimedExpires =>
            /\ timed'.operation = "cancelled"
            /\ timed'.pc = "raised"
            /\ timed'.outcome.error = OwnTimeout]_vars
    /\ [](timed.operation = "cancelled" =>
            /\ timed.outcome.status = "err"
            /\ timed.outcome.error.kind = TimeoutKind
            /\ timed.outcome.error.operation = timed.operation_name
            /\ timed.outcome.error.timeout = timed.timeout_seconds)
    /\ [][\A v \in ReturnValues :
            TimedReturns(v) => (timed'.pc = "returned" /\ timed'.outcome.value = v)]_vars

\* C17 witness: the deadline of a wrapper named test_operation expired, the
\* operation has been cancelled and the wrapper has raised its TimeoutError.
C17_Witness ==
    /\ timed.pc = "raised"
    /\ timed.operation = "cancelled"
    /\ timed.operation_name = "test_operation"
    /\ timed.outcome.error = Exc(TimeoutKind, "test_operation", timed.timeout_seconds)

\* C18 (the claim as stated): when the operation fails by itself the wrapper
\* raises exactly the error the operation raised, and the wrapper raises the
\* TimeoutError with its own name and limit only when its own deadline expired.
C18_OtherFailuresUnchanged ==
    /\ [][\A e \in OperationErrors :
            TimedRaises(e) => timed'.outcome.error = e]_vars
    /\ []((timed.pc = "raised" /\ timed.outcome.error = OwnTimeout) =>
             timed.operation = "cancelled")

----------------------------------------------------------------------------
\* Properties of safe_execute_with_fallback (checked under SpecFallback)

\* C19: when the primary succeeds the wrapper returns its result and the
\* fallback is not invoked; when the primary fails the fallback is invoked
\* exactly once, with the arguments of the call, and its result is returned.
C19_FallbackOnFailure ==
    /\ [][\A v \in PrimaryValues :
            PrimaryReturns(v) =>
                /\ guarded'.pc = "returned"
                /\ guarded'.outcome.value = v
                /\ guarded'.fallback_calls = <<>>]_vars
    /\ [][\A v \in FallbackValues :
            FallbackReturns(v) =>
                (guarded'.pc = "returned" /\ guarded'.outcome.value = v)]_vars
    /\ [](guarded.primary_error = NoFailure => guarded.fallback_calls = <<>>)
    /\ [](guarded.primary_error # NoFailure =>
             /\ guarded.primary_calls = <<guarded.args>>
             /\ guarded.fallback_calls = <<guarded.args>>)

\* C19 witness: the primary failed, the fallback was invoked once with the
\* question of the call and its result has been returned.
C19_Witness ==
    /\ guarded.pc = "returned"
    /\ guarded.primary_error # NoFailure
    /\ guarded.args = "What is covered?"
    /\ guarded.fallback_calls = <<"What is covered?">>
    /\ guarded.outcome.value = "fallback_result"

\* C20: when the primary and the fallback both fail the wrapper raises
\* ExternalServiceError carrying the operation name and the message of the
\* primary's error, never the exception of the fallback; it raises in no
\* other case.
C20_BothFail ==
    guarded.pc = "raised" =>
        /\ guarded.primary_error # NoFailure
        /\ guarded.fallback_error # NoFailure
        /\ guarded.outcome.error.kind = ExternalServiceKind
        /\ guarded.outcome.error.service = guarded.operation_name
        /\ guarded.outcome.error.message = guarded.primary_error.message
        /\ guarded.outcome.error # guarded.fallback_error

\* C20 witness: both failed and the wrapper has raised ExternalServiceError
\* with the message of the primary.
C20_Witness ==
    /\ guarded.pc = "raised"
    /\ guarded.primary_error.message = "Primary failed"
    /\ guarded.fallback_error.message = "Fallback failed"
    /\ guarded.outcome.error = Failure(ExternalServiceKind, guarded.operation_name, "Primary failed")

----------------------------------------------------------------------------
\* Properties of process_document_from_url_async (checked under SpecDocument)

Ended(a) == a.pc \in {"returned", "raised"}

\* C21 (the claim as stated): when the acquisition call has ended, by return,
\* failure, timeout or cancellation, no temporary file it created is left.
C21_TempFilesDeleted == Ended(acquire) => acquire.files = {}

\* C22: when the download or the extraction has failed, the call returns
\* (it does not raise) exactly one page, whose content is the placeholder
\* string and whose metadata names the URL of the call.
C22_FallbackPage ==
    (Ended(acquire) /\ acquire.primary.status = "err") =>
        /\ acquire.pc = "returned"
        /\ acquire.outcome.status = "ok"
        /\ Len(acquire.outcome.pages) = 1
        /\ acquire.outcome.pages[1].page_content = DOCUMENT_FALLBACK
        /\ acquire.outcome.pages[1].metadata.source = acquire.url

\* A download that failed after part of the body was written.
C22_Witness ==
    /\ acquire.pc = "returned"
    /\ acquire.url # ""
    /\ acquire.download.status = "err"
    /\ acquire.downloaded_size > 0
    /\ acquire.outcome.pages[1].page_content = DOCUMENT_FALLBACK

\* C24 (the claim as stated): never more than the ceiling is written to the
\* temporary file, a response declaring more than the ceiling is rejected
\* with DocumentProcessingError, and no download of a larger body succeeds.
C24_SizeCeiling ==
    /\ acquire.pc # "idle" => acquire.downloaded_size <= SizeCeiling
    /\ (Ended(acquire) /\ too_large(acquire.content_length)) =>
           acquire.download = Err(DocumentProcessingKind, "file_size")
    /\ (acquire.pc # "idle" /\ acquire.download.status = "ok") =>
           acquire.body <= SizeCeiling

----------------------------------------------------------------------------
\* Properties of the stages of run_submission (checked under SpecPipeline)

RequestEnded == request.pc \in {"returned", "raised"}

\* C23 (the claim as stated): a request whose document download timed out,
\* so that the acquisition gave its fallback page, ends with a successful
\* response holding one answer per question, each of them the placeholder
\* text of the document-processing fallback.
C23_DownloadTimeoutDegrades ==
    (RequestEnded /\ request.document = "fallback") =>
        /\ request.pc = "returned"
        /\ request.status = 200
        /\ request.answers = request.nq
        /\ request.texts = {DOCUMENT_FALLBACK}

\* C25 (the claim as stated): when run_submission has ended, by return or by
\* any failure, the trace opened by start_request is no longer active and is
\* in the buffer of completed traces.
C25_TraceFinalized ==
    RequestEnded => (~monitor.active /\ Len(monitor.completed) = 1)

\* The place of a stage in the order acquire, chunk, index, answer.
StageRank(s) ==
    CASE s = "document_download" -> 1
      [] s = "document_chunking" -> 2
      [] s = "vector_store_creation" -> 3
      [] s = "answer_generation" -> 4
      [] OTHER -> 0

\* The operations recorded for the request so far are the first n stages, in
\* order, each finished successfully.
StagesDone(n) ==
    /\ Len(monitor.operations) = n
    /\ \A k \in 1..n :
         /\ StageRank(monitor.operations[k].operation_name) = k
         /\ monitor.operations[k].success
         /\ monitor.operations[k].finished

\* C27: the first stage to start is the acquisition; a stage other than the
\* first starts only in the step in which the stage before it returns, all
\* the stages before it having finished successfully; once a stage has
\* failed or timed out the request has ended and no stage starts any more.
C27_StagesInOrder ==
    /\ [](StageRank(request.pc) > 0 => StagesDone(StageRank(request.pc) - 1))
    /\ [][(StageRank(request'.pc) > 0 /\ request'.pc # request.pc) =>
            \/ request.pc = "idle" /\ StageRank(request'.pc) = 1
            \/ /\ StageRank(request.pc) > 0
               /\ StageRank(request'.pc) = StageRank(request.pc) + 1
               /\ monitor'.operations[StageRank(request.pc)].success]_vars
    /\ [][RequestEnded => request'.pc = request.pc]_vars

\* The answer stage running after the three stages before it have returned.
C27_Witness ==
    /\ request.pc = "answer_generation"
    /\ StagesDone(3)

----------------------------------------------------------------------------
\* Properties of the buffer of completed requests (checked under SpecMonitor)

\* The last n entries of h, or all of h if it has fewer.
LastOf(h, n) ==
    IF Len(h) <= n THEN h ELSE [k \in 1..n |-> h[Len(h) - n + k]]

\* C26: whenever no caller is inside start_request or finish_request, the
\* buffer of completed requests holds at most MaxCompletedRequests entries,
\* and they are the most recently finished requests in order of completion.
C26_BoundedRecentBuffer ==
    traces.lock = 0 =>
        /\ Len(traces.completed) <= MaxCompletedRequests
        /\ traces.completed = LastOf(traces.history, MaxCompletedRequests)

\* More requests have finished than the buffer holds, and not in the order
\* in which they were started.
C26_Witness ==
    /\ traces.lock = 0
    /\ Len(traces.history) > MaxCompletedRequests
    /\ traces.history[1] # 1
    /\ traces.active # {}

----------------------------------------------------------------------------
\* Properties of the context assembly (checked under SpecAssembly)

AllBlank(docs) == \A k \in 1..Len(docs) : docs[k].text = 0

\* C28: when the search returned no chunk, or only chunks that are empty
\* after trimming, the retrieve step returns the text of
\* fallback_vector_search as the context.
C28_EmptySearchFallsBack ==
    (assembly.pc = "returned" /\ AllBlank(assembly.docs)) =>
        /\ assembly.context.kind = "fallback"
        /\ assembly.context.text = NO_SEARCH

\* Two chunks of whitespace went through the loop.
C28_Witness ==
    /\ assembly.pc = "returned"
    /\ Len(assembly.docs) = 2
    /\ assembly.docs[1].space > 0
    /\ assembly.docs[2].space > 0
    /\ AllBlank(assembly.docs)
    /\ assembly.i = 3
    /\ assembly.context.text = NO_SEARCH

\* C29 (the claim as stated): the assembled context is never longer than
\* the budget of 4000 characters.
C29_ContextWithinBudget ==
    (assembly.pc = "returned" /\ assembly.context.kind = "context") =>
        assembly.context.length <= 4000

\* The parts the claim describes for the chunks from the i-th on, total
\* characters of content being in the context already: a chunk that fits is
\* taken whole; the first that does not fit is cut to the remaining budget if
\* at least 100 characters remain; nothing is taken after it.
RECURSIVE PartsAsStated(_, _, _)
PartsAsStated(docs, i, total) ==
    IF i > Len(docs) THEN <<>>
    ELSE IF docs[i].text = 0 THEN PartsAsStated(docs, i + 1, total)
    ELSE IF total + docs[i].text <= 4000
         THEN <<[ordinal |-> i, content_len |-> docs[i].text, truncated |-> FALSE]>>
              \o PartsAsStated(docs, i + 1, total + docs[i].text)
    ELSE IF 4000 - total >= 100
         THEN <<[ordinal |-> i, content_len |-> (4000 - total) + Len("..."),
                 truncated |-> TRUE]>>
    ELSE <<>>

\* C30 (the claim as stated): the parts of the returned context are the ones
\* described above, in retrieval order.
C30_TruncateOrStop ==
    assembly.pc = "returned" =>
        assembly.context.parts = PartsAsStated(assembly.docs, 1, 0)

----------------------------------------------------------------------------
\* Properties of generate_answer (checked under SpecGenerate)

\* The prompt has been formatted and handed to the completion model.
PromptSent == generation.pc = "llm" \/ (generation.pc = "done" /\ generation.prompt # NoPrompt)

\* C31: whatever context and question the caller supplies, the context placed
\* in the prompt is at most 4000 characters long and the question at most 500.
C31_PromptWithinLimits ==
    PromptSent =>
        /\ str_len(generation.prompt.context) <= 4000
        /\ str_len(generation.prompt.question) <= 500

C31_Witness ==
    /\ generation.pc = "llm"
    /\ str_len(generation.context) > 4000
    /\ str_len(generation.question) > 500

\* The completion model has returned a content and generate_answer has ended.
Answered == generation.pc = "done" /\ generation.prompt # NoPrompt /\ generation.outcome.status = "ok"

\* C32: generate_answer returns the fallback string when the model's output is
\* empty after trimming, and the trimmed output whenever it is non-empty, also
\* when it is shorter than ten characters.
C32_TrimmedOrFallback ==
    Answered =>
        IF generation.content.body = 0
        THEN generation.outcome.fallback
        ELSE /\ ~generation.outcome.fallback
             /\ generation.outcome.text = Str(0, generation.content.body, 0)

C32_Witness ==
    /\ Answered
    /\ generation.content.body \in 1..9
    /\ generation.content.lead > 0
    /\ ~generation.outcome.fallback
----------------------------------------------------------------------------
\* Properties of the per-question retries (checked under SpecAnswer)

\* The question of task i fell back because its primary raised an error of kind k.
FellBackOn(i, k) ==
    /\ tasks[i].pc = "done"
    /\ tasks[i].primary.status = "err"
    /\ tasks[i].primary.kind = k

\* C33: a failing similarity search and a failing completion call are each
\* attempted again, two more times, before the question falls back.
C33_FailingCallsRetried ==
    \A i \in 1..Len(tasks) :
        /\ FellBackOn(i, VectorStoreKind) => tasks[i].searches = 3
        /\ (FellBackOn(i, ExternalServiceKind) /\ is_initialized) => tasks[i].llm_calls >= 3

\* C36: for one question the completion model is invoked at most nine times
\* and the similarity search at most three times.
C36_CallsBounded ==
    \A i \in 1..Len(tasks) :
        /\ tasks[i].llm_calls <= 9
        /\ tasks[i].searches <= 3

C36_Witness ==
    \E i \in 1..Len(tasks) :
        /\ tasks[i].llm_calls = 9
        /\ tasks[i].searches = 3
        /\ tasks[i].pc = "done"

\* C39: for a question that is empty or only whitespace the answer at its
\* position is the generic apology, neither the similarity search nor the
\* completion model is invoked for it, and nothing is retried.
C39_BlankQuestionApology ==
    \A i \in 1..N :
        Strip(questions[i]) = "" =>
            /\ batch.pc = "returned" => batch.answers[i].text = APOLOGY
            /\ i \in 1..Len(tasks) =>
                 /\ tasks[i].searches = 0
                 /\ tasks[i].llm_calls = 0
                 /\ tasks[i].attempt = 0
                 /\ tasks[i].pc \in {"created", "done", "cancelled"}
                 /\ tasks[i].pc = "done" => tasks[i].outcome.text = APOLOGY

C39_Witness ==
    /\ batch.pc = "returned"
    /\ gather_exc.status = "none"
    /\ \E i, j \in 1..Len(tasks) :
         /\ Strip(questions[i]) = ""
         /\ tasks[i].pc = "done"
         /\ tasks[i].primary.kind = DocumentProcessingKind
         /\ tasks[j].llm_calls > 0
         /\ batch.answers[j].text # APOLOGY
----------------------------------------------------------------------------
\* Properties of track_operation (checked under SpecPipeline)

\* The trace of the request: the operations of the active request, or those
\* of the request finished last.
Trace(m) ==
    IF m.active THEN m.operations
    ELSE IF Len(m.completed) > 0 THEN m.completed[Len(m.completed)]
    ELSE <<>>

\* The stage s, run for an active request, ends in this step.
StageEnds(s) == request.pc = s /\ request'.pc # s /\ monitor.active

\* C34: every stage run under track_operation for an active request appends
\* exactly one record to the trace of the request, whether it succeeds or
\* raises; the record is a failure when the stage raised and a success
\* otherwise.
C34_OneRecordPerStage ==
    [][\A s \in StageNames :
         StageEnds(s) =>
            LET trace == Trace(monitor')
            IN  /\ Len(trace) = Len(monitor.operations) + 1
                /\ trace[Len(trace)].operation_name = s
                /\ trace[Len(trace)].success <=> request'.pc # "raised"]_vars

\* The same for the stages that return or raise one of the program's errors.
OneRecordPerUninterruptedStage ==
    [][\A s \in StageNames :
         (StageEnds(s) /\ request'.error.name # "api_request") =>
            LET trace == Trace(monitor')
            IN  /\ Len(trace) = Len(monitor.operations) + 1
                /\ trace[Len(trace)].operation_name = s
                /\ trace[Len(trace)].success <=> request'.pc # "raised"]_vars

RecordsOf(m) ==
    {m.operations[k] : k \in 1..Len(m.operations)} \cup
    UNION {{m.completed[j][k] : k \in 1..Len(m.completed[j])} : j \in 1..Len(m.completed)}

\* C35: every record stored with success = true belongs to a stage that ran
\* to completion (it has an end time and a duration); a stage interrupted by
\* cancellation is never recorded as successful.
C35_SuccessMeansCompleted ==
    \A op \in RecordsOf(monitor) : op.success => op.finished
----------------------------------------------------------------------------
\* Properties of the retry around the acquisition (checked under SpecDocument)

\* C37: process_document_from_url_async runs the primary download-and-extract
\* path at most once per call: a failure of the primary is turned into a
\* returned page by the fallback, so the retry_handler around the two never
\* makes a second attempt.
C37_PrimaryRunsOnce ==
    /\ acquire.primary_runs <= 1
    /\ (Ended(acquire) /\ acquire.primary.status = "err") => acquire.outcome.status = "ok"

C37_Witness ==
    /\ acquire.pc = "returned"
    /\ acquire.primary_runs = 1
    /\ acquire.primary.status = "err"
    /\ acquire.download.kind \in TransportErrors
----------------------------------------------------------------------------
\* Properties of the shared index (checked under SpecIndex)

\* C38 (the claim as stated): for two requests with different documents,
\* handled one after the other or concurrently, every chunk retrieved for a
\* question of one request is a chunk of that request's own document.
C38_RetrievalIsolation ==
    \A r \in IndexRequests :
        \A c \in index.request[r].retrieved : c.document = index.request[r].document
----------------------------------------------------------------------------
\* Properties of the monitor's lock (checked under SpecMonitor)

\* The pcs of a caller inside a "with self._lock" block
LockedSections == {"start", "finish", "trim", "track", "stats"}

\* C40: no operation of the monitor (start_request, finish_request,
\* track_operation, get_performance_stats) tries to acquire the lock while it
\* holds it: the holder of the lock is always inside a block it is about to
\* leave, nobody waits for a lock held by itself, and some caller can always
\* take a step.
C40_NoSelfDeadlock ==
    /\ \A c \in Callers : traces.caller[c].pc # "blocked"
    /\ traces.lock # 0 => traces.caller[traces.lock].pc \in LockedSections
    /\ \A c \in Callers : traces.caller[c].pc \in LockedSections => traces.lock = c
    /\ ENABLED NextMonitor

C40_Witness ==
    /\ traces.lock = 0
    /\ Len(traces.history) >= 2
    /\ \E id \in RequestIds : traces.operations[id] > 0 /\ id \notin traces.active
====
